---- MODULE Spec2Model ----
(***************************************************************************)
(* A model of the handle-ownership engine and of the overload tables of    *)
(* src/src/embind/embind.js.                                               *)
(*                                                                         *)
(* Handles are numbered in creation order; a handle's $$ record is hs[h].  *)
(* Reference-count cells ({value: n} objects) are numbered too: cnt[c] is  *)
(* the value of cell c and hs[h].count names the cell h shares.            *)
(* Native addresses: object i lives at 10*i, its base-class subobject at   *)
(* 10*i+1, smart pointer j at 100+j; 0 stands for null and undefined.      *)
(***************************************************************************)
EXTENDS Integers, Sequences, FiniteSets, TLC

\* ------------------------------------------------------------- bounds
MaxHandles == 2
MaxObjects == 1
MaxSmartPtrs == 2
MaxQueue == 2
MaxCount == 2
MaxNeg == 1
MaxArity == 2
MaxRegistrations == 2
MaxStack == 4
MaxDeps == 2
MaxAwaiting == 1
MaxParams == 1
MaxInvocations == 2

VARIABLES
    hs,                  \* handle number -> $$ record
    cloneOf,             \* handle number -> the handle it was cloned from (0: none)
    cnt,                 \* count cell number -> value
    deletionQueue,       \* sequence of handle numbers
    delayFunction,       \* "undefined", "async" or "sync"
    registeredInstances, \* basest pointer -> handle number (0: no entry)
    finalizers,          \* handles registered in the finalizationRegistry
    collected,           \* handles the host has garbage-collected
    spPointee,           \* smart pointer slot -> raw pointee address (-1: free slot)
    objClass,            \* object slot -> dynamic class ("free": free slot)
    objAlive,            \* object slot -> not yet destroyed natively
    objShared,           \* object slot -> handed out through a smart pointer
    wrapperOf,           \* object number -> handle notified on destruction
    destroyed,           \* the smart pointers and objects a destructor was called on
    pendingFlush,        \* 1 while a flush handed to an asynchronous hook has not run
    Module,              \* public name -> symbol
    registeredTypes,     \* type ids that have a descriptor
    registrations,       \* the function and method registrations made so far
    lastCall,            \* the last call of a public symbol or method
    instancePrototype,   \* class -> own properties of its instancePrototype
    pureVirtualFunctions,\* class -> names pushed on its pureVirtualFunctions
    typeDependencies,    \* type id -> the ids it waits for (no entry: not in the domain)
    constructor_body,    \* class -> parameter count -> constructor (<<>>: undefined)
    invoker,             \* the function craftInvokerFunction returned, with its closure
    invocations,         \* the calls of invoker made so far, in order
    callStack,           \* the invocations whose native call is on the stack, innermost last
    freed,               \* transient allocation -> how often it was freed
    rejected,            \* argument count of the first call the invoker refused (-1: none)
    cast,                \* a call of upcastPointer: its arguments and its outcome
    argument,            \* the handle last passed to a bound function, and what became of it
    registry             \* type id -> descriptor, the build's ASSERTIONS, the last conversion

hvars == <<hs, cloneOf, cnt, deletionQueue, delayFunction, registeredInstances, finalizers,
           collected, spPointee, objClass, objAlive, objShared, wrapperOf,
           destroyed, pendingFlush>>
ovars == <<Module, registeredTypes, registrations, lastCall, instancePrototype,
           pureVirtualFunctions, typeDependencies, constructor_body>>
avars == <<invoker, invocations, callStack, freed, rejected>>
vars == <<hvars, ovars, avars, cast, argument, registry>>

\* ------------------------------------------------------------- native layout
Objects == 1..MaxObjects
SmartPtrs == 1..MaxSmartPtrs
ObjAddr(i) == 10 * i
SpAddr(j) == 100 + j
ObjOf(a) == a \div 10
SpOf(a) == a - 100
Addrs == {ObjAddr(i) + d : i \in Objects, d \in 0..2} \cup {SpAddr(j) : j \in SmartPtrs}

\* ------------------------------------------------------------- classes and pointer types
\* RegisteredClass.baseClass ("none": undefined)
Classes == {"Base", "Derived"}
\* MostDerived extends Derived, Other is a class of its own.
baseClass(c) ==
    IF c = "Derived" THEN "Base" ELSE IF c = "MostDerived" THEN "Derived" ELSE "none"

\* RegisteredClass.upcast / downcast: the native casts shift the address
upcast(c, p) == IF c = "MostDerived" THEN p + 2 ELSE p + 1
downcast(c, p) == IF c = "MostDerived" THEN p - 2 ELSE p - 1

\* (the address is passed up unchanged)
RECURSIVE upcastPointer_unshifted(_, _, _)
upcastPointer_unshifted(ptr, ptrClass, desiredClass) ==
    IF ptrClass = desiredClass THEN [ptr |-> ptr, err |-> "", steps |-> 0]
    ELSE IF baseClass(ptrClass) = "none"
    THEN [ptr |-> 0, err |-> "BindingError: Expected null or instance of", steps |-> 0]
    ELSE [upcastPointer_unshifted(ptr, baseClass(ptrClass), desiredClass)
             EXCEPT !.steps = @ + 1]

\* upcastPointer(ptr, ptrClass, desiredClass); steps counts the turns of the loop.
RECURSIVE upcastPointer(_, _, _)
upcastPointer(ptr, ptrClass, desiredClass) ==
    IF ptrClass = desiredClass THEN [ptr |-> ptr, err |-> "", steps |-> 0]
    ELSE IF baseClass(ptrClass) = "none"
    THEN [ptr |-> 0, err |-> "BindingError: Expected null or instance of", steps |-> 0]
    ELSE [upcastPointer(upcast(ptrClass, ptr), baseClass(ptrClass), desiredClass)
             EXCEPT !.steps = @ + 1]

RetTypes == {"Base*", "Derived*", "sp<Base>"}
PtrTypes == {"Base*", "Base const*", "Derived*", "Derived const*", "sp<Base>", "sp<Derived>"}

RegisteredPointer(t) ==
    [name |-> t,
     registeredClass |-> IF t \in {"Derived*", "Derived const*", "sp<Derived>"}
                         THEN "Derived"
                         ELSE IF t \in {"Other*", "Other const*"} THEN "Other" ELSE "Base",
     isConst |-> t \in {"Base const*", "Derived const*", "Other const*"},
     isSmartPointer |-> t \in {"sp<Base>", "sp<Derived>"},
     pointeeType |-> IF t = "sp<Base>" THEN "Base*"
                     ELSE IF t = "sp<Derived>" THEN "Derived*" ELSE "none"]

\* (the two pointer types of each record change places)
registeredPointers_swapped ==
    [c \in {"Base", "Derived", "Other"} |->
        [pointerType |-> IF c = "Derived" THEN "Derived const*"
                         ELSE IF c = "Other" THEN "Other const*" ELSE "Base const*",
         constPointerType |-> IF c = "Derived" THEN "Derived*"
                              ELSE IF c = "Other" THEN "Other*" ELSE "Base*"]]

\* registeredPointers[actualType]: Base, Derived and Other (registered without
\* a base class) have a record; a class that is not in the domain has none.
registeredPointers ==
    [c \in {"Base", "Derived", "Other"} |->
        [pointerType |-> IF c = "Derived" THEN "Derived*"
                         ELSE IF c = "Other" THEN "Other*" ELSE "Base*",
         constPointerType |-> IF c = "Derived" THEN "Derived const*"
                              ELSE IF c = "Other" THEN "Other const*" ELSE "Base const*"]]

RECURSIVE getBasestPointer(_, _)
getBasestPointer(class_, ptr) ==
    IF baseClass(class_) # "none"
    THEN getBasestPointer(baseClass(class_), upcast(class_, ptr))
    ELSE ptr

\* (the "no conversion" of the recursive call is passed to the native downcast)
RECURSIVE downcastPointer_unchecked(_, _, _)
downcastPointer_unchecked(ptr, ptrClass, desiredClass) ==
    IF ptrClass = desiredClass THEN ptr
    ELSE IF baseClass(desiredClass) = "none" THEN 0
    ELSE downcast(desiredClass,
                  downcastPointer_unchecked(ptr, ptrClass, baseClass(desiredClass)))

\* downcastPointer(ptr, ptrClass, desiredClass); 0 is the null of "no conversion".
RECURSIVE downcastPointer(_, _, _)
downcastPointer(ptr, ptrClass, desiredClass) ==
    IF ptrClass = desiredClass THEN ptr
    ELSE IF baseClass(desiredClass) = "none" THEN 0
    ELSE LET rv == downcastPointer(ptr, ptrClass, baseClass(desiredClass))
         IN IF rv = 0 THEN 0 ELSE downcast(desiredClass, rv)

\* The address at which native code hands out object o as a pointer to class c.
AddrAs(o, dyn, c) == IF dyn = c THEN ObjAddr(o) ELSE upcast(dyn, ObjAddr(o))

\* ------------------------------------------------------------- the runtime's state as one value
\* The operations below are functions from such a value to such a value, so that
\* one action can run a whole handler, nested and re-entrant calls included.
\* err: the exception in flight ("": none); ret: the value returned; tr: the
\* events of the call so far.  cbT, cbG are a destructor callback of the native
\* side: when cbT's destructor runs, host code calls cbG.deleteLater().
Cur(cbT, cbG) ==
    [hs |-> hs, org |-> cloneOf, cnt |-> cnt, q |-> deletionQueue, dly |-> delayFunction,
     reg |-> registeredInstances, fin |-> finalizers, spP |-> spPointee,
     oCls |-> objClass, oAlive |-> objAlive, oShared |-> objShared, wrap |-> wrapperOf,
     dead |-> destroyed, pend |-> pendingFlush,
     col |-> collected, err |-> "", ret |-> 0, tr |-> <<>>,
     cbT |-> cbT, cbG |-> cbG]

Throw(S, e) == [S EXCEPT !.err = e]
Ev(S, e) == [S EXCEPT !.tr = Append(@, e)]

\* What a destructor call on address a destroys: a smart pointer, or the
\* object the address lies in.
Entity(a) == IF a > 100 THEN a ELSE ObjAddr(ObjOf(a))

AlreadyDeleted == "BindingError: instance already deleted"
AlreadyScheduled == "BindingError: Object already scheduled for deletion"

\* ------------------------------------------------------------- live-instance registry
RegAt(S, a) == IF a \in DOMAIN S.reg THEN S.reg[a] ELSE 0

\* (a registered address takes the new instance)
registerInheritedInstance_overwriting(S, class_, ptr, instance) ==
    [S EXCEPT !.reg[getBasestPointer(class_, ptr)] = instance]

registerInheritedInstance(S, class_, ptr, instance) ==
    LET p == getBasestPointer(class_, ptr)
    IN IF RegAt(S, p) # 0
       THEN Throw(S, "BindingError: Tried to register registered instance")
       ELSE [S EXCEPT !.reg[p] = instance]

unregisterInheritedInstance(S, class_, ptr) ==
    LET p == getBasestPointer(class_, ptr)
    IN IF RegAt(S, p) # 0
       THEN [S EXCEPT !.reg[p] = 0]
       ELSE Throw(S, "BindingError: Tried to unregister unregistered instance")

\* Object.keys(registeredInstances).length
getInheritedInstanceCount(S) == Cardinality({a \in DOMAIN S.reg : S.reg[a] # 0})

\* A lookup that forgets to upcast to the basest class.
getInheritedInstance_noUpcast(S, class_, ptr) == RegAt(S, ptr)

getInheritedInstance(S, class_, ptr) == RegAt(S, getBasestPointer(class_, ptr))

\* ------------------------------------------------------------- finalizers
\* (every handle is registered, raw pointer or not)
attachFinalizer_always(S, h) == [S EXCEPT !.fin = @ \cup {h}]

\* attachFinalizer, on a host that has a FinalizationRegistry: it registers
\* only handles that own a smart pointer.  (On a host without one it does
\* nothing: that host's behaviours are those in which Finalize is never taken.)
attachFinalizer(S, h) ==
    IF S.hs[h].smartPtr # 0 THEN [S EXCEPT !.fin = @ \cup {h}] ELSE S

detachFinalizer(S, h) == [S EXCEPT !.fin = @ \ {h}]

\* ------------------------------------------------------------- the native side
\* __destruct of a host-side subclass instance, called by the native wrapper's
\* destructor; the wrapper class of the model is Derived.
Destruct(S, h) ==
    unregisterInheritedInstance(detachFinalizer(S, h), "Derived", S.hs[h].ptr)

ObjectDies(S, o) ==
    LET S1 == [S EXCEPT !.oAlive[o] = FALSE, !.wrap[o] = 0]
    IN IF S.wrap[o] # 0 THEN Destruct(S1, S.wrap[o]) ELSE S1

LiveSpInto(S, o) ==
    {j \in SmartPtrs : SpAddr(j) \notin S.dead /\ S.spP[j] > 0 /\ ObjOf(S.spP[j]) = o}

\* smartPtrType.rawDestructor(a): the smart pointer dies.  Its pointee lives on
\* while native code holds it (NativeRelease is native code letting go).
SmartPtrRawDestructor(S, a) ==
    Ev([S EXCEPT !.dead = @ \cup {Entity(a)}], <<"spDtor", a>>)

\* registeredClass.rawDestructor(a): the object at a is destroyed.
ClassRawDestructor(S, a) ==
    LET S1 == Ev([S EXCEPT !.dead = @ \cup {Entity(a)}], <<"rawDtor", a>>)
        o == ObjOf(a)
    IN IF a < 100 /\ o \in Objects /\ S.oAlive[o]
       THEN ObjectDies(S1, o)
       ELSE S1

\* ------------------------------------------------------------- handles
shallowCopyInternalPointer(o) ==
    [count |-> o.count,
     deleteScheduled |-> o.deleteScheduled,
     preservePointerOnDelete |-> o.preservePointerOnDelete,
     ptr |-> o.ptr,
     ptrType |-> o.ptrType,
     smartPtr |-> o.smartPtr,
     smartPtrType |-> o.smartPtrType]

\* makeClassHandle: a new handle with a new count cell holding 1.
makeClassHandle(S, ptrType, ptr, smartPtrType, smartPtr) ==
    IF ptrType = "none" \/ ptr = 0
    THEN Throw(S, "InternalError: makeClassHandle requires ptr and ptrType")
    ELSE IF (smartPtrType # "none") # (smartPtr # 0)
    THEN Throw(S, "InternalError: Both smartPtrType and smartPtr must be specified")
    ELSE LET h == Len(S.hs) + 1
             record == [count |-> Len(S.cnt) + 1,
                        deleteScheduled |-> FALSE,
                        preservePointerOnDelete |-> FALSE,
                        ptr |-> ptr,
                        ptrType |-> ptrType,
                        smartPtr |-> smartPtr,
                        smartPtrType |-> smartPtrType]
             S1 == [S EXCEPT !.hs = Append(@, record), !.org = Append(@, 0),
                             !.cnt = Append(@, 1)]
         IN [attachFinalizer(S1, h) EXCEPT !.ret = h]

\* ClassHandle.isAliasOf
RECURSIVE upcastToRoot(_, _)
upcastToRoot(class_, ptr) ==
    IF baseClass(class_) # "none"
    THEN upcastToRoot(baseClass(class_), upcast(class_, ptr))
    ELSE <<class_, ptr>>

ClassHandle_isAliasOf(S, this, other) ==
    upcastToRoot(RegisteredPointer(S.hs[this].ptrType).registeredClass, S.hs[this].ptr)
    = upcastToRoot(RegisteredPointer(S.hs[other].ptrType).registeredClass, S.hs[other].ptr)

ClassHandle_isDeleted(S, h) == S.hs[h].ptr = 0

\* A clone that forgets to count itself.
ClassHandle_clone_uncounted(S, h) ==
    IF S.err # "" THEN S
    ELSE IF S.hs[h].ptr = 0 THEN Throw(S, AlreadyDeleted)
    ELSE IF S.hs[h].preservePointerOnDelete THEN [S EXCEPT !.ret = h]
    ELSE LET clone == Len(S.hs) + 1
             S1 == [S EXCEPT !.hs = Append(@, shallowCopyInternalPointer(S.hs[h])),
                             !.org = Append(@, h)]
         IN [attachFinalizer(S1, clone) EXCEPT !.hs[clone].deleteScheduled = FALSE,
                                               !.ret = clone]

\* A clone that copies the count cell instead of sharing it.
ClassHandle_clone_ownCell(S, h) ==
    IF S.err # "" THEN S
    ELSE IF S.hs[h].ptr = 0 THEN Throw(S, AlreadyDeleted)
    ELSE IF S.hs[h].preservePointerOnDelete
    THEN [S EXCEPT !.cnt[S.hs[h].count] = @ + 1, !.ret = h]
    ELSE LET clone == Len(S.hs) + 1
             S1 == [S EXCEPT !.hs = Append(@, shallowCopyInternalPointer(S.hs[h])),
                             !.org = Append(@, h),
                             !.cnt = Append(@, S.cnt[S.hs[h].count] + 1)]
         IN [attachFinalizer(S1, clone) EXCEPT !.hs[clone].count = Len(S1.cnt),
                                               !.hs[clone].deleteScheduled = FALSE,
                                               !.ret = clone]

\* ClassHandle.clone
ClassHandle_clone(S, h) ==
    IF S.err # "" THEN S
    ELSE IF S.hs[h].ptr = 0 THEN Throw(S, AlreadyDeleted)
    ELSE IF S.hs[h].preservePointerOnDelete
    THEN [S EXCEPT !.cnt[S.hs[h].count] = @ + 1, !.ret = h]
    ELSE LET clone == Len(S.hs) + 1
             S1 == [S EXCEPT !.hs = Append(@, shallowCopyInternalPointer(S.hs[h])),
                             !.org = Append(@, h)]
             S2 == attachFinalizer(S1, clone)
         IN [S2 EXCEPT !.cnt[S2.hs[clone].count] = @ + 1,
                       !.hs[clone].deleteScheduled = FALSE,
                       !.ret = clone]

RECURSIVE runDestructor(_, _)
RECURSIVE releaseClassHandle(_, _)
RECURSIVE ClassHandle_delete(_, _)
RECURSIVE ClassHandle_deleteLater(_, _)
RECURSIVE flushPendingDeletes(_)

\* runDestructor($$), followed by what the native destructor calls back.
runDestructor(S, h) ==
    LET r == S.hs[h]
        S1 == IF r.smartPtr # 0
              THEN IF r.smartPtrType = "none"
                   THEN Throw(S, "TypeError: smartPtrType is undefined")
                   ELSE SmartPtrRawDestructor(S, r.smartPtr)
              ELSE ClassRawDestructor(S, r.ptr)
    IN IF S1.err = "" /\ S1.cbT = h /\ S1.cbG # 0
          /\ S1.hs[S1.cbG].ptr # 0
          /\ (S1.hs[S1.cbG].preservePointerOnDelete \/ ~S1.hs[S1.cbG].deleteScheduled)
          /\ Len(S1.q) < MaxQueue
          /\ S1.cnt[S1.hs[S1.cbG].count] > -MaxNeg
       THEN [ClassHandle_deleteLater([S1 EXCEPT !.cbT = 0], S1.cbG) EXCEPT !.ret = S1.ret]
       ELSE S1

\* A release that runs the destructor whatever the count has become.
releaseClassHandle_unconditional(S, h) ==
    runDestructor([S EXCEPT !.cnt[S.hs[h].count] = @ - 1], h)

releaseClassHandle(S, h) ==
    LET c == S.hs[h].count
        S1 == [S EXCEPT !.cnt[c] = @ - 1]
    IN IF S1.cnt[c] = 0 THEN runDestructor(S1, h) ELSE S1

\* (the pointers of every handle on the cell are cleared)
ClassHandle_delete_wholeCell(S, h) ==
    IF S.err # "" THEN S
    ELSE IF S.hs[h].ptr = 0 THEN Throw(S, AlreadyDeleted)
    ELSE IF S.hs[h].deleteScheduled /\ ~S.hs[h].preservePointerOnDelete
    THEN Throw(S, AlreadyScheduled)
    ELSE LET S1 == releaseClassHandle(detachFinalizer(S, h), h)
         IN IF S1.err # "" THEN S1
            ELSE IF ~S1.hs[h].preservePointerOnDelete
            THEN Ev([S1 EXCEPT !.hs = [g \in DOMAIN S1.hs |->
                                          IF S1.hs[g].count = S1.hs[h].count
                                          THEN [S1.hs[g] EXCEPT !.smartPtr = 0, !.ptr = 0]
                                          ELSE S1.hs[g]]],
                    <<"deleted", h>>)
            ELSE Ev(S1, <<"deleted", h>>)

\* (every handle keeps its pointers when deleted)
ClassHandle_delete_pointerKept(S, h) ==
    IF S.err # "" THEN S
    ELSE IF S.hs[h].ptr = 0 THEN Throw(S, AlreadyDeleted)
    ELSE IF S.hs[h].deleteScheduled /\ ~S.hs[h].preservePointerOnDelete
    THEN Throw(S, AlreadyScheduled)
    ELSE LET S1 == releaseClassHandle(detachFinalizer(S, h), h)
         IN IF S1.err # "" THEN S1 ELSE Ev(S1, <<"deleted", h>>)

\* ClassHandle.delete
ClassHandle_delete(S, h) ==
    IF S.err # "" THEN S
    ELSE IF S.hs[h].ptr = 0 THEN Throw(S, AlreadyDeleted)
    ELSE IF S.hs[h].deleteScheduled /\ ~S.hs[h].preservePointerOnDelete
    THEN Throw(S, AlreadyScheduled)
    ELSE LET S1 == releaseClassHandle(detachFinalizer(S, h), h)
         IN IF S1.err # "" THEN S1
            ELSE IF ~S1.hs[h].preservePointerOnDelete
            THEN Ev([S1 EXCEPT !.hs[h].smartPtr = 0, !.hs[h].ptr = 0], <<"deleted", h>>)
            ELSE Ev(S1, <<"deleted", h>>)

\* A hook that is never told.
CallHook_dropped(S) == S

\* delayFunction(flushPendingDeletes): a synchronous hook runs the flush at
\* once, an asynchronous one keeps it for later (a flush it is handed while it
\* holds one finds what that one left: the queue empty).
CallHook(S) ==
    LET S1 == Ev(S, <<"hook">>)
    IN IF S.dly = "sync" THEN flushPendingDeletes(S1)
       ELSE [S1 EXCEPT !.pend = 1]

\* (the handle is deleted on the spot)
ClassHandle_deleteLater_eager(S, h) == [ClassHandle_delete(S, h) EXCEPT !.ret = h]

\* ClassHandle.deleteLater
ClassHandle_deleteLater(S, h) ==
    IF S.err # "" THEN S
    ELSE IF S.hs[h].ptr = 0 THEN Throw(S, AlreadyDeleted)
    ELSE IF S.hs[h].deleteScheduled /\ ~S.hs[h].preservePointerOnDelete
    THEN Throw(S, AlreadyScheduled)
    ELSE LET S1 == Ev([S EXCEPT !.q = Append(@, h)], <<"push", h, Len(S.q) + 1>>)
             S2 == IF Len(S1.q) = 1 /\ S1.dly # "undefined" THEN CallHook(S1) ELSE S1
         IN IF S2.err # "" THEN S2
            ELSE [S2 EXCEPT !.hs[h].deleteScheduled = TRUE, !.ret = h]

\* A flush with an if where the loop belongs.
flushPendingDeletes_once(S) ==
    IF S.err # "" \/ Len(S.q) = 0 THEN S
    ELSE LET obj == S.q[Len(S.q)]
             S1 == Ev([S EXCEPT !.q = SubSeq(@, 1, Len(@) - 1),
                                !.hs[obj].deleteScheduled = FALSE], <<"pop", obj>>)
         IN ClassHandle_delete(S1, obj)

\* flushPendingDeletes
flushPendingDeletes(S) ==
    IF S.err # "" \/ Len(S.q) = 0 THEN S
    ELSE LET obj == S.q[Len(S.q)]
             S1 == Ev([S EXCEPT !.q = SubSeq(@, 1, Len(@) - 1),
                                !.hs[obj].deleteScheduled = FALSE], <<"pop", obj>>)
         IN flushPendingDeletes(ClassHandle_delete(S1, obj))

\* setDelayFunction
setDelayFunction_silent(S, fn) == [S EXCEPT !.dly = fn]

setDelayFunction(S, fn) ==
    LET S1 == [S EXCEPT !.dly = fn]
    IN IF Len(S1.q) # 0 /\ fn # "undefined" THEN CallHook(S1) ELSE S1

\* ------------------------------------------------------------- return-value conversion
\* RegisteredPointer.getPointee: a smart pointer type reads the raw pointee.
RegisteredPointer_getPointee(S, T, ptr) ==
    IF T.isSmartPointer THEN S.spP[SpOf(ptr)] ELSE ptr

\* RegisteredPointer.destructor: only smart pointer types have a rawDestructor.
RegisteredPointer_destructor(S, T, ptr) ==
    IF T.isSmartPointer THEN SmartPtrRawDestructor(S, ptr) ELSE S

\* registeredClass.getActualType(rawPointer): the object's dynamic class.
getActualType(S, rawPointer) == S.oCls[ObjOf(rawPointer)]

makeDefaultHandle(S, t, rawPointer, ptr) ==
    IF RegisteredPointer(t).isSmartPointer
    THEN makeClassHandle(S, RegisteredPointer(t).pointeeType, rawPointer, t, ptr)
    ELSE makeClassHandle(S, t, ptr, "none", 0)

\* A revival that keeps the stale smart pointer.
revive_stale(S, registeredInstance, rawPointer, ptr) ==
    [S EXCEPT !.hs[registeredInstance].ptr = rawPointer]

\* The registered instance's count is 0: its record takes the incoming pointers.
revive(S, registeredInstance, rawPointer, ptr) ==
    [S EXCEPT !.hs[registeredInstance].ptr = rawPointer,
              !.hs[registeredInstance].smartPtr = ptr]

RegisteredPointer_fromWireType(S, t, ptr) ==
    LET T == RegisteredPointer(t)
        rawPointer == RegisteredPointer_getPointee(S, T, ptr)
        registeredInstance == getInheritedInstance(S, T.registeredClass, rawPointer)
        actualType == getActualType(S, rawPointer)
        toType == IF T.isConst THEN registeredPointers[actualType].constPointerType
                  ELSE registeredPointers[actualType].pointerType
        dp == downcastPointer(rawPointer, T.registeredClass,
                              RegisteredPointer(toType).registeredClass)
    IN IF rawPointer = 0
       THEN [RegisteredPointer_destructor(S, T, ptr) EXCEPT !.ret = 0]
       ELSE IF registeredInstance # 0
       THEN IF S.cnt[S.hs[registeredInstance].count] = 0
            THEN ClassHandle_clone(revive(S, registeredInstance, rawPointer, ptr),
                                   registeredInstance)
            ELSE LET S1 == ClassHandle_clone(S, registeredInstance)
                 IN IF S1.err # "" THEN S1
                    ELSE [RegisteredPointer_destructor(S1, T, ptr) EXCEPT !.ret = S1.ret]
       ELSE IF actualType \notin DOMAIN registeredPointers
       THEN makeDefaultHandle(S, t, rawPointer, ptr)
       ELSE IF dp = 0
       THEN makeDefaultHandle(S, t, rawPointer, ptr)
       ELSE IF T.isSmartPointer
       THEN makeClassHandle(S, toType, dp, t, ptr)
       ELSE makeClassHandle(S, toType, dp, "none", 0)

\* __construct of a host-side subclass: the native wrapper is made by
\* baseConstructor.implement, whose result is converted like any return value.
Construct(S, t, ptr) ==
    LET S1 == RegisteredPointer_fromWireType(S, t, ptr)
        inner == S1.ret
        S2 == detachFinalizer(S1, inner)
        S3 == [S2 EXCEPT !.wrap[ObjOf(S2.hs[inner].ptr)] = inner,
                         !.hs[inner].preservePointerOnDelete = TRUE]
        S4 == attachFinalizer(S3, inner)
    IN IF S1.err # "" \/ inner = 0 THEN S1
       ELSE [registerInheritedInstance(S4, "Derived", S4.hs[inner].ptr, inner)
                EXCEPT !.ret = inner]

\* ------------------------------------------------------------- what native code returns
\* Native code returns null, a pointer to an object that is still alive, or a
\* pointer to a new object; a smart pointer is always a newly made one.
Compatible(dyn, c) == dyn = c \/ baseClass(dyn) = c

\* New objects and smart pointers take the lowest free slot.
Lowest(s) == CHOOSE x \in s : \A y \in s : x <= y
FreeObjects == {o \in Objects : objClass[o] = "free"}
FreeSmartPtrs == {j \in SmartPtrs : spPointee[j] = -1}
IsNew(o) == FreeObjects # {} /\ o = Lowest(FreeObjects)

NativeObject(S, o, dyn) ==
    IF o # 0 /\ S.oCls[o] = "free"
    THEN [S EXCEPT !.oCls[o] = dyn, !.oAlive[o] = TRUE]
    ELSE S

RawAddr(S, t, o) ==
    IF o = 0 THEN 0 ELSE AddrAs(o, S.oCls[o], RegisteredPointer(t).registeredClass)

NativeValue(S, t, o) ==
    IF RegisteredPointer(t).isSmartPointer
    THEN IF o = 0 THEN [S EXCEPT !.spP[Lowest(FreeSmartPtrs)] = 0]
         ELSE [S EXCEPT !.spP[Lowest(FreeSmartPtrs)] = RawAddr(S, t, o),
                        !.oShared[o] = TRUE]
    ELSE S

WirePtr(S, t, o) ==
    IF RegisteredPointer(t).isSmartPointer THEN SpAddr(Lowest(FreeSmartPtrs))
    ELSE RawAddr(S, t, o)

CanReturn(t, o, dyn) ==
    /\ RegisteredPointer(t).isSmartPointer => FreeSmartPtrs # {}
    /\ \/ o = 0 /\ dyn = "Base"
       \/ /\ o \in Objects
          /\ objAlive[o] /\ dyn = objClass[o]
          /\ Compatible(dyn, RegisteredPointer(t).registeredClass)
       \/ /\ IsNew(o)
          /\ Compatible(dyn, RegisteredPointer(t).registeredClass)

\* ------------------------------------------------------------- argument conversion
\* Native memory has room for one more smart pointer.
FreeSlots(S) == {j \in SmartPtrs : S.spP[j] = -1}

\* The pointer type a toWireType is called on: RegisteredPointer(t), with the
\* sharing policy of a smart pointer type (0: NONE, 1: INTRUSIVE, 2: BY_EMVAL).
\* Pointer types are no references.
ParameterType(t, sharingPolicy) ==
    [name |-> t,
     registeredClass |-> RegisteredPointer(t).registeredClass,
     isReference |-> FALSE,
     isConst |-> RegisteredPointer(t).isConst,
     isSmartPointer |-> RegisteredPointer(t).isSmartPointer,
     sharingPolicy |-> sharingPolicy]

\* instanceof: class_ is c or has c among its base classes.
RECURSIVE IsInstanceOf(_, _)
IsInstanceOf(class_, c) ==
    class_ = c \/ (baseClass(class_) # "none" /\ IsInstanceOf(baseClass(class_), c))

\* this.rawConstructor(): native code makes an empty smart pointer.
rawConstructor(S) ==
    LET j == Lowest(FreeSlots(S))
    IN [S EXCEPT !.spP[j] = 0, !.ret = SpAddr(j)]

\* this.rawShare(ptr, Emval.toHandle(closure)): native code makes a smart
\* pointer to ptr whose deleter calls the closure; the closure deletes
\* clonedHandle.
rawShare(S, ptr, clonedHandle) ==
    LET j == Lowest(FreeSlots(S))
    IN Ev([S EXCEPT !.spP[j] = ptr, !.ret = SpAddr(j)], <<"rawShare", SpAddr(j), clonedHandle>>)

\* destructors.push(this.rawDestructor, ptr), when destructors is a list.
PushDestructor(S, destructors) ==
    IF destructors THEN Ev(S, <<"destructors.push", S.ret>>) ELSE S

\* (every sharing policy passes the handle's smart pointer, like INTRUSIVE)
SharingPolicySwitch_intrusive(S, T, destructors, handle, ptr) ==
    [S EXCEPT !.ret = S.hs[handle].smartPtr]

\* switch (this.sharingPolicy) of genericPointerToWireType; ptr is the upcast
\* raw pointer.
SharingPolicySwitch(S, T, destructors, handle, ptr) ==
    IF T.sharingPolicy = 0
    THEN IF S.hs[handle].smartPtrType = T.name
         THEN [S EXCEPT !.ret = S.hs[handle].smartPtr]
         ELSE Throw(S, "BindingError: Cannot convert argument of type")
    ELSE IF T.sharingPolicy = 1
    THEN [S EXCEPT !.ret = S.hs[handle].smartPtr]
    ELSE IF T.sharingPolicy = 2
    THEN IF S.hs[handle].smartPtrType = T.name
         THEN [S EXCEPT !.ret = S.hs[handle].smartPtr]
         ELSE LET S1 == ClassHandle_clone(S, handle)
              IN PushDestructor(rawShare(S1, ptr, S1.ret), destructors)
    ELSE Throw(S, "BindingError: Unsupporting sharing policy")

\* genericPointerToWireType(destructors, handle) of pointer type T; handle 0
\* is null, destructors is FALSE for null and TRUE for a list.
genericPointerToWireType(S, T, destructors, handle) ==
    IF handle = 0
    THEN IF T.isReference THEN Throw(S, "BindingError: null is not a valid")
         ELSE IF T.isSmartPointer THEN PushDestructor(rawConstructor(S), destructors)
         ELSE [S EXCEPT !.ret = 0]
    ELSE IF S.hs[handle].ptr = 0
    THEN Throw(S, "BindingError: Cannot pass deleted object as a pointer of type")
    ELSE IF ~T.isConst /\ RegisteredPointer(S.hs[handle].ptrType).isConst
    THEN Throw(S, "BindingError: Cannot convert argument of type")
    ELSE LET handleClass == RegisteredPointer(S.hs[handle].ptrType).registeredClass
             up == upcastPointer(S.hs[handle].ptr, handleClass, T.registeredClass)
         IN IF up.err # "" THEN Throw(S, up.err)
            ELSE IF ~T.isSmartPointer THEN [S EXCEPT !.ret = up.ptr]
            ELSE IF S.hs[handle].smartPtr = 0
            THEN Throw(S, "BindingError: Passing raw pointer to smart pointer is illegal")
            ELSE SharingPolicySwitch(S, T, destructors, handle, up.ptr)

constNoSmartPtrRawPointerToWireType(S, T, destructors, handle) ==
    IF handle = 0
    THEN IF T.isReference THEN Throw(S, "BindingError: null is not a valid")
         ELSE [S EXCEPT !.ret = 0]
    ELSE IF S.hs[handle].ptr = 0
    THEN Throw(S, "BindingError: Cannot pass deleted object as a pointer of type")
    ELSE LET handleClass == RegisteredPointer(S.hs[handle].ptrType).registeredClass
             up == upcastPointer(S.hs[handle].ptr, handleClass, T.registeredClass)
         IN IF up.err # "" THEN Throw(S, up.err) ELSE [S EXCEPT !.ret = up.ptr]

nonConstNoSmartPtrRawPointerToWireType(S, T, destructors, handle) ==
    IF handle = 0
    THEN IF T.isReference THEN Throw(S, "BindingError: null is not a valid")
         ELSE [S EXCEPT !.ret = 0]
    ELSE IF S.hs[handle].ptr = 0
    THEN Throw(S, "BindingError: Cannot pass deleted object as a pointer of type")
    ELSE IF RegisteredPointer(S.hs[handle].ptrType).isConst
    THEN Throw(S, "BindingError: Cannot convert argument of type")
    ELSE LET handleClass == RegisteredPointer(S.hs[handle].ptrType).registeredClass
             up == upcastPointer(S.hs[handle].ptr, handleClass, T.registeredClass)
         IN IF up.err # "" THEN Throw(S, up.err) ELSE [S EXCEPT !.ret = up.ptr]

\* this.toWireType, as the RegisteredPointer constructor chose it.
RegisteredPointer_toWireType(S, T, destructors, handle) ==
    IF ~T.isSmartPointer /\ baseClass(T.registeredClass) = "none"
    THEN IF T.isConst
         THEN constNoSmartPtrRawPointerToWireType(S, T, destructors, handle)
         ELSE nonConstNoSmartPtrRawPointerToWireType(S, T, destructors, handle)
    ELSE genericPointerToWireType(S, T, destructors, handle)

\* validateThis(this_, classType, humanName); this_ 0 is no object.
validateThis(S, this_, classType) ==
    IF this_ = 0 THEN Throw(S, "BindingError: with invalid this")
    ELSE LET handleClass == RegisteredPointer(S.hs[this_].ptrType).registeredClass
             up == upcastPointer(S.hs[this_].ptr, handleClass, classType)
         IN IF ~IsInstanceOf(handleClass, classType)
            THEN Throw(S, "BindingError: incompatible with this of type")
            ELSE IF S.hs[this_].ptr = 0
            THEN Throw(S, "BindingError: cannot call emscripten binding method on deleted object")
            ELSE IF up.err # "" THEN Throw(S, up.err)
            ELSE [S EXCEPT !.ret = up.ptr]

\* A native entry point is entered with a pointer.
Native(S, what) == IF S.err # "" THEN S ELSE Ev(S, <<"native", what, S.ret>>)

\* handle.method(): the invoker converts `this` with the toWireType of the
\* class's pointer type t and applies the native function.
CallBoundMethod(S, t, handle) ==
    Native(RegisteredPointer_toWireType(S, ParameterType(t, 0), FALSE, handle), "method")

\* handle.field and handle.field = v, for a field of class classType.
PropertyGetter(S, classType, handle) == Native(validateThis(S, handle, classType), "getter")
PropertySetter(S, classType, handle) == Native(validateThis(S, handle, classType), "setter")

\* f(handle), for a bound function f with one parameter of pointer type T.
PassArgument(S, T, handle) ==
    Native(RegisteredPointer_toWireType(S, T, TRUE, handle), "function")

\* ------------------------------------------------------------- public symbols and overload tables
Names == {"f"}
TypeIds == {"A", "B"}

\* undefined, as the value of a numeric property and as an index of a table
\* (the property named "undefined").
Undefined == -1

\* A function object: what it runs, and the properties embind hangs on it.
\* code: <<"stub", r>> is the unbound-type stub of registration r,
\* <<"invoker", r>> the invoker crafted for it, <<"dispatcher", 0>> the
\* overload resolver.
FunctionObject(code) ==
    [code |-> code, numArguments |-> Undefined, argCount |-> Undefined,
     className |-> "", hasTable |-> FALSE, overloadTable |-> <<>>]

OverloadState ==
    [M |-> Module, P |-> instancePrototype, pv |-> pureVirtualFunctions,
     types |-> registeredTypes, deps |-> typeDependencies, regs |-> registrations,
     ctor |-> constructor_body, err |-> ""]

\* proto[methodName], read through the prototype chain: base holds what proto
\* inherits.
GetProperty(proto, base, methodName) ==
    IF methodName \in DOMAIN proto THEN proto[methodName] ELSE base[methodName]

\* ensureOverloadTable(proto, methodName, humanName); the assignment makes the
\* resolver an own property of proto.
ensureOverloadTable(proto, base, methodName) ==
    LET prevFunc == GetProperty(proto, base, methodName)
    IN IF ~prevFunc.hasTable
       THEN (methodName :>
                 [FunctionObject(<<"dispatcher", 0>>) EXCEPT
                     !.hasTable = TRUE,
                     !.overloadTable = (prevFunc.argCount :> prevFunc)]) @@ proto
       ELSE proto

\* exposePublicSymbol(name, value, numArguments)
exposePublicSymbol(O, name, value, numArguments) ==
    IF name \in DOMAIN O.M
    THEN IF \/ numArguments = Undefined
            \/ (O.M[name].hasTable /\ numArguments \in DOMAIN O.M[name].overloadTable)
         THEN [O EXCEPT !.err = "BindingError: Cannot register public name twice"]
         ELSE LET M1 == ensureOverloadTable(O.M, <<>>, name)
              IN IF ToString(numArguments) \in DOMAIN M1
                 THEN [O EXCEPT !.M = M1,
                                !.err = "BindingError: Cannot register multiple overloads of a function with the same number of arguments"]
                 ELSE [O EXCEPT !.M = [M1 EXCEPT ![name].overloadTable =
                                                     (numArguments :> value) @@ @]]
    ELSE [O EXCEPT !.M = (name :> [value EXCEPT !.numArguments = numArguments]) @@ @]

\* replacePublicSymbol(name, value, numArguments)
replacePublicSymbol(O, name, value, numArguments) ==
    IF name \notin DOMAIN O.M
    THEN [O EXCEPT !.err = "InternalError: Replacing nonexistant public symbol"]
    ELSE IF O.M[name].hasTable /\ numArguments # Undefined
    THEN [O EXCEPT !.M[name].overloadTable = (numArguments :> value) @@ @]
    ELSE [O EXCEPT !.M[name] = [value EXCEPT !.argCount = numArguments]]

\* The class whose instancePrototype owns methodName, seen from class_
\* ("none": the property is undefined).
RECURSIVE Owner(_, _, _)
Owner(P, class_, methodName) ==
    IF methodName \in DOMAIN P[class_] THEN class_
    ELSE IF baseClass(class_) = "none" THEN "none"
    ELSE Owner(P, baseClass(class_), methodName)

\* What the instancePrototype of class_ inherits.
RECURSIVE Inherited(_, _)
Inherited(P, class_) ==
    IF baseClass(class_) = "none" THEN <<>>
    ELSE P[baseClass(class_)] @@ Inherited(P, baseClass(class_))

\* proto[methodName].overloadTable[k] = fn: the table written is the one of
\* the function object the lookup finds.
SetOverload(P, class_, methodName, k, fn) ==
    [P EXCEPT ![Owner(P, class_, methodName)][methodName].overloadTable = (k :> fn) @@ @]

\* (the callback leaves the unbound-type stub where it is)
ResolvedMethod_stubKept(O, r) ==
    [O EXCEPT !.regs[r].resolved = TRUE, !.regs[r].fired = @ + 1]

\* The second callback of _embind_register_class_function: the types of the
\* signature have descriptors.
ResolvedMethod(O, r) ==
    LET class_ == O.regs[r].class
        methodName == O.regs[r].name
        argCount == O.regs[r].argCount
        memberFunction == FunctionObject(<<"invoker", r>>)
        P1 == IF ~GetProperty(O.P[class_], Inherited(O.P, class_), methodName).hasTable
              THEN [O.P EXCEPT ![class_] =
                       (methodName :> [memberFunction EXCEPT !.argCount = argCount - 2]) @@ @]
              ELSE SetOverload(O.P, class_, methodName, argCount - 2, memberFunction)
    IN [O EXCEPT !.P = P1, !.regs[r].resolved = TRUE, !.regs[r].fired = @ + 1]

\* The second callback of _embind_register_class_constructor: the invoker
\* takes the place of the stub.
ResolvedConstructor(O, r) ==
    [O EXCEPT !.ctor[O.regs[r].class] = ((O.regs[r].argCount - 1) :> <<"invoker", r>>) @@ @,
              !.regs[r].resolved = TRUE, !.regs[r].fired = @ + 1]

\* The callback _embind_register_function hands to whenDependentTypesAreResolved;
\* fired counts the runs of a registration's callback.
Resolved(O, r) ==
    IF O.regs[r].kind = "method" THEN ResolvedMethod(O, r)
    ELSE IF O.regs[r].kind = "constructor" THEN ResolvedConstructor(O, r)
    ELSE [replacePublicSymbol(O, O.regs[r].name, FunctionObject(<<"invoker", r>>),
                              O.regs[r].argCount - 1)
             EXCEPT !.regs[r].resolved = TRUE, !.regs[r].fired = @ + 1]

Range(seq) == {seq[i] : i \in 1..Len(seq)}

\* whenDependentTypesAreResolved([], argTypes, callback): the callback runs at
\* once when every type has a descriptor, else when the last one gets one.
whenDependentTypesAreResolved(O, r) ==
    IF Range(O.regs[r].argTypes) \subseteq O.types THEN Resolved(O, r) ELSE O

\* _embind_register_function(name, argCount, rawArgTypesAddr, ...)
embind_register_function(O, name, argCount, argTypes) ==
    LET r == Len(O.regs) + 1
        O1 == exposePublicSymbol(O, name, FunctionObject(<<"stub", r>>), argCount - 1)
        O2 == [O1 EXCEPT !.regs = Append(@, [kind |-> "function", class |-> "",
                                              name |-> name, argCount |-> argCount,
                                              argTypes |-> argTypes, pureVirtual |-> FALSE,
                                              resolved |-> FALSE, fired |-> 0])]
    IN IF O1.err # "" THEN O1 ELSE whenDependentTypesAreResolved(O2, r)

\* (isPureVirtual is ignored)
embind_register_class_function_notPure(O, class_, methodName, argCount, rawArgTypes, isPureVirtual) ==
    LET r == Len(O.regs) + 1
        stub == [FunctionObject(<<"stub", r>>) EXCEPT !.argCount = argCount - 2,
                                                       !.className = class_]
        O2 == [O EXCEPT !.P[class_] = (methodName :> stub) @@ @,
                        !.regs = Append(@, [kind |-> "method", class |-> class_,
                                            name |-> methodName, argCount |-> argCount,
                                            argTypes |-> rawArgTypes,
                                            pureVirtual |-> isPureVirtual,
                                            resolved |-> FALSE, fired |-> 0])]
    IN whenDependentTypesAreResolved(O2, r)

\* _embind_register_class_function(rawClassType, methodName, argCount,
\* rawArgTypesAddr, ..., isPureVirtual, isAsync), the class being registered.
\* rawArgTypes is [ReturnType, ThisType, Args...].
embind_register_class_function(O, class_, methodName, argCount, rawArgTypes, isPureVirtual) ==
    LET r == Len(O.regs) + 1
        pv1 == IF isPureVirtual THEN [O.pv EXCEPT ![class_] = @ \cup {methodName}] ELSE O.pv
        proto == O.P[class_]
        owner == Owner(O.P, class_, methodName)
        unboundTypesHandler == FunctionObject(<<"stub", r>>)
        P1 == IF \/ owner = "none"
                 \/ LET method == O.P[owner][methodName]
                    IN /\ ~method.hasTable
                       /\ method.className # class_
                       /\ method.argCount = argCount - 2
              THEN [O.P EXCEPT ![class_] =
                       (methodName :> [unboundTypesHandler EXCEPT
                                           !.argCount = argCount - 2,
                                           !.className = class_]) @@ @]
              ELSE LET P0 == [O.P EXCEPT ![class_] =
                                 ensureOverloadTable(proto, Inherited(O.P, class_), methodName)]
                   IN SetOverload(P0, class_, methodName, argCount - 2, unboundTypesHandler)
        O2 == [O EXCEPT !.pv = pv1, !.P = P1,
                        !.regs = Append(@, [kind |-> "method", class |-> class_,
                                            name |-> methodName, argCount |-> argCount,
                                            argTypes |-> rawArgTypes,
                                            pureVirtual |-> isPureVirtual,
                                            resolved |-> FALSE, fired |-> 0])]
    IN whenDependentTypesAreResolved(O2, r)

\* (a constructor registered for a parameter count replaces the one there)
embind_register_class_constructor_replacing(O, class_, argCount, rawArgTypes) ==
    LET r == Len(O.regs) + 1
    IN whenDependentTypesAreResolved(
           [O EXCEPT !.ctor[class_] = ((argCount - 1) :> <<"stub", r>>) @@ @,
                     !.regs = Append(@, [kind |-> "constructor", class |-> class_,
                                         name |-> class_, argCount |-> argCount,
                                         argTypes |-> rawArgTypes, pureVirtual |-> FALSE,
                                         resolved |-> FALSE, fired |-> 0])], r)

\* _embind_register_class_constructor(rawClassType, argCount, rawArgTypesAddr,
\* ...), the class type having its descriptor: rawArgTypes is the class
\* followed by the argCount - 1 parameter types.
embind_register_class_constructor(O, class_, argCount, rawArgTypes) ==
    LET r == Len(O.regs) + 1
    IN IF (argCount - 1) \in DOMAIN O.ctor[class_]
       THEN [O EXCEPT !.err = "BindingError: Cannot register multiple constructors with identical number of parameters"]
       ELSE whenDependentTypesAreResolved(
                [O EXCEPT !.ctor[class_] = ((argCount - 1) :> <<"stub", r>>) @@ @,
                          !.regs = Append(@, [kind |-> "constructor", class |-> class_,
                                              name |-> class_, argCount |-> argCount,
                                              argTypes |-> rawArgTypes, pureVirtual |-> FALSE,
                                              resolved |-> FALSE, fired |-> 0])], r)

\* The registry gives type t its descriptor and runs the callbacks that waited
\* for nothing else, in the order they were registered.
RECURSIVE RunAwaiting(_, _)
RunAwaiting(O, r) ==
    IF r > Len(O.regs) THEN O
    ELSE IF ~O.regs[r].resolved /\ Range(O.regs[r].argTypes) \subseteq O.types
    THEN RunAwaiting(Resolved(O, r), r + 1)
    ELSE RunAwaiting(O, r + 1)

\* The types that waited with whenDependentTypesAreResolved(myTypes, ...) get
\* their descriptors once everything they wait for has one.
RECURSIVE ResolveTypes(_)
ResolveTypes(O) ==
    LET ready == {u \in DOMAIN O.deps : u \notin O.types /\ Range(O.deps[u]) \subseteq O.types}
    IN IF ready = {} THEN O ELSE ResolveTypes([O EXCEPT !.types = @ \cup ready])

registerType(O, t) ==
    IF t \in O.types
    THEN [O EXCEPT !.err = "DuplicateTypeError"]
    ELSE RunAwaiting(ResolveTypes([O EXCEPT !.types = @ \cup {t}]), 1)

\* whenDependentTypesAreResolved([myType], dependentTypes, ...), as
\* _embind_finalize_value_object calls it for a value object and its field
\* types: typeDependencies[myType] = dependentTypes.
awaitDependentTypes(O, myType, dependentTypes) ==
    RunAwaiting(ResolveTypes([O EXCEPT !.deps = (myType :> dependentTypes) @@ @]), 1)

\* The walk of throwUnboundTypeError.  W is what the closure holds:
\* unboundTypes, seen, and whether the host's call stack ran out (the
\* RangeError then unwinds every frame).
RECURSIVE visit(_, _, _, _, _)
RECURSIVE forEachVisit(_, _, _, _, _, _)
\* (visit that never consults seen)
visit_unguarded(W, type, registered, deps, depth) ==
    IF W.overflow THEN W
    ELSE IF depth > MaxStack THEN [W EXCEPT !.overflow = TRUE]
    ELSE IF type \in registered THEN W
    ELSE IF type \in DOMAIN deps
    THEN forEachVisit(W, deps[type], 1, registered, deps, depth + 1)
    ELSE [W EXCEPT !.unboundTypes = Append(@, type), !.seen = @ \cup {type}]

visit(W, type, registered, deps, depth) ==
    IF W.overflow THEN W
    ELSE IF depth > MaxStack THEN [W EXCEPT !.overflow = TRUE]
    ELSE IF type \in W.seen THEN W
    ELSE IF type \in registered THEN W
    ELSE IF type \in DOMAIN deps
    THEN forEachVisit(W, deps[type], 1, registered, deps, depth + 1)
    ELSE [W EXCEPT !.unboundTypes = Append(@, type), !.seen = @ \cup {type}]

forEachVisit(W, list, i, registered, deps, depth) ==
    IF i > Len(list) THEN W
    ELSE forEachVisit(visit(W, list[i], registered, deps, depth), list, i + 1,
                      registered, deps, depth)

\* throwUnboundTypeError(message, types): what is thrown, and the types the
\* message lists.
throwUnboundTypeError(types, registered, deps) ==
    LET W == forEachVisit([unboundTypes |-> <<>>, seen |-> {}, overflow |-> FALSE],
                          types, 1, registered, deps, 1)
    IN IF W.overflow
       THEN [err |-> "RangeError: Maximum call stack size exceeded", unbound |-> <<>>]
       ELSE [err |-> "UnboundTypeError", unbound |-> W.unboundTypes]

\* What a function object prints as: the text of the function.
FunctionToString(fn) ==
    IF fn.code[1] = "stub" THEN "function() { throwUnboundTypeError(...) }"
    ELSE IF fn.code[1] = "invoker" THEN "function() { ...invoker... }"
    ELSE "function() { ...overloadTable... }"

\* `${overloadTable}`: the array's elements printed and joined by commas, a
\* hole as the empty string; named properties are no elements.
Max(s) == CHOOSE x \in s : \A y \in s : y <= x
ArrayToString(table) ==
    LET idx == {k \in DOMAIN table : k >= 0}
    IN IF idx = {} THEN <<>>
       ELSE [i \in 1..(Max(idx) + 1) |->
                IF (i - 1) \in DOMAIN table THEN FunctionToString(table[i - 1]) ELSE ""]

NoCall ==
    [op |-> "none", name |-> "", nargs |-> 0, err |-> "", target |-> <<"none", 0>>,
     expects |-> <<>>, unbound |-> <<>>, types |-> <<>>, properties |-> {}]

\* Object.keys of an array: its indices in ascending order.
RECURSIVE SortedKeys(_)
SortedKeys(keys) ==
    IF keys = {} THEN <<>>
    ELSE LET k == CHOOSE x \in keys : \A y \in keys : x <= y
         IN <<k>> \o SortedKeys(keys \ {k})

\* argTypes.length of the invoker crafted for registration r: a free function
\* gets a null `this` type added to its signature.
InvokerArgCount(reg) == IF reg.kind # "method" THEN reg.argCount + 1 ELSE reg.argCount

\* A call of function object fn with nargs arguments.
Apply(O, fn, name, nargs) ==
    LET call == [NoCall EXCEPT !.op = "call", !.name = name, !.nargs = nargs,
                               !.target = fn.code]
        r == fn.code[2]
    IN IF fn.code[1] = "stub"
       THEN LET T == throwUnboundTypeError(O.regs[r].argTypes, O.types, O.deps)
            IN [call EXCEPT !.err = T.err, !.unbound = T.unbound]
       ELSE IF nargs # InvokerArgCount(O.regs[r]) - 2
       THEN [call EXCEPT !.err = "BindingError: called with wrong number of arguments",
                         !.expects = <<ToString(InvokerArgCount(O.regs[r]) - 2)>>]
       ELSE call

\* new Class(...nargs arguments): the constructor _embind_register_class
\* names the class with.
CallConstructor(O, class_, nargs) ==
    LET call == [NoCall EXCEPT !.op = "new", !.name = class_, !.nargs = nargs]
    IN IF O.ctor[class_] = <<>>
       THEN [call EXCEPT !.err = "BindingError: has no accessible constructor"]
       ELSE IF nargs \notin DOMAIN O.ctor[class_]
       THEN [call EXCEPT !.err = "BindingError: Tried to invoke ctor with invalid number of parameters",
                         !.expects = [i \in 1..Cardinality(DOMAIN O.ctor[class_]) |->
                                         ToString(SortedKeys(DOMAIN O.ctor[class_])[i])]]
       ELSE [Apply(O, [code |-> O.ctor[class_][nargs]], class_, nargs) EXCEPT !.op = "new"]

\* The overload resolver ensureOverloadTable installs, and a plain function.
CallFunctionObject(O, fn, name, nargs) ==
    IF fn.hasTable
    THEN IF nargs \notin DOMAIN fn.overloadTable
         THEN [NoCall EXCEPT !.op = "call", !.name = name, !.nargs = nargs,
                             !.target = fn.code,
                             !.err = "BindingError: called with an invalid number of arguments",
                             !.expects = ArrayToString(fn.overloadTable)]
         ELSE Apply(O, fn.overloadTable[nargs], name, nargs)
    ELSE Apply(O, fn, name, nargs)

\* Module[name](...nargs arguments)
CallPublicSymbol(O, name, nargs) == CallFunctionObject(O, O.M[name], name, nargs)

\* instance[methodName](...nargs arguments), instance a handle of class_
CallMethod(O, class_, methodName, nargs) ==
    CallFunctionObject(O, O.P[Owner(O.P, class_, methodName)][methodName], methodName, nargs)

\* The constructor _embind_create_inheriting_constructor makes for a host-side
\* subclass of wrapperClass whose prototype got the members `properties`:
\* this[name] is the subclass's own member, else what wrapperPrototype finds.
\* constructed: __construct was applied.
InheritingConstructor(O, wrapperClass, properties) ==
    LET base == baseClass(wrapperClass)
        unimplemented ==
            {name \in O.pv[base] :
                /\ name \notin properties
                /\ Owner(O.P, wrapperClass, name) = Owner(O.P, base, name)}
    IN IF unimplemented # {}
       THEN [NoCall EXCEPT !.op = "new", !.properties = properties,
                           !.err = "PureVirtualError"]
       ELSE [NoCall EXCEPT !.op = "new", !.properties = properties,
                           !.target = <<"__construct", 0>>]

\* ------------------------------------------------------------- call adapters
\* The types of a signature, by what their descriptor does with transient
\* memory.  "int": no allocation, destructorFunction null.  "rawptr": a raw
\* pointer to a class without base class, no allocation, destructorFunction
\* null.  "string": toWireType allocates, destructorFunction frees.
\* "pointer": genericPointerToWireType, which allocates or not depending on
\* the handle passed, destructorFunction undefined.
ParamKinds == {"int", "string", "pointer"}
ThisKinds == {"null", "rawptr", "pointer"}
ReturnKinds == {"void", "int"}

destructorFunction(kind) ==
    IF kind = "string" THEN "static" ELSE IF kind = "pointer" THEN "undefined" ELSE "null"

\* craftInvokerFunction's locals, from argTypes ([return, this or null, params...]).
isClassMethodFunc(I) == I.argTypes[2] # "null"
needsDestructorStack(I) ==
    \E i \in 2..Len(I.argTypes) :
        I.argTypes[i] # "null" /\ destructorFunction(I.argTypes[i]) = "undefined"
returns(I) == I.argTypes[1] # "void"
expectedArgCount(I) == Len(I.argTypes) - 2

\* craftInvokerFunction(humanName, argTypes, classType, cppInvokerFunc,
\* cppTargetFunc, isAsync) in a build with the given DYNAMIC_EXECUTION and
\* ASYNCIFY settings.  With DYNAMIC_EXECUTION == 0, argsWired and destructors
\* belong to the closure of the invoker.
craftInvokerFunction(argTypes, isAsync, dynamicExecution, asyncify) ==
    [dynamicExecution |-> dynamicExecution, asyncify |-> asyncify, isAsync |-> isAsync,
     argTypes |-> argTypes,
     argsWired |-> [i \in 1..(Len(argTypes) - 2) |-> 0],
     destructors |-> <<>>]

\* The adapter's state as one value.
AdapterState ==
    [I |-> invoker, calls |-> invocations, stack |-> callStack, freed |-> freed,
     err |-> "", rejected |-> rejected]

\* The transient allocation that converting position pos (0: this, i: the
\* i-th parameter) of invocation k makes.
AllocId(k, pos) == 10 * k + pos
OwnerOf(a) == a \div 10

\* The destructors argument the invoker passes to toWireType.
PassesList(I) == I.dynamicExecution = 0 \/ needsDestructorStack(I)

\* argTypes[..].toWireType(destructors, value) for position pos of invocation
\* k; allocates says whether a "pointer" conversion makes a temporary.
toWireType(A, k, pos, kind, allocates) ==
    LET ptr == IF kind = "string" \/ (kind = "pointer" /\ allocates)
               THEN AllocId(k, pos) ELSE 0
        A1 == IF ptr = 0 THEN A ELSE [A EXCEPT !.freed = (ptr :> 0) @@ @]
        A2 == IF ptr # 0 /\ PassesList(A.I)
              THEN IF A.I.dynamicExecution = 0
                   THEN [A1 EXCEPT !.I.destructors = Append(@, ptr)]
                   ELSE [A1 EXCEPT !.calls[k].destructors = Append(@, ptr)]
              ELSE A1
        A3 == IF pos = 0 THEN [A2 EXCEPT !.calls[k].thisWired = ptr]
              ELSE IF A.I.dynamicExecution = 0
              THEN [A2 EXCEPT !.I.argsWired[pos] = ptr]
              ELSE [A2 EXCEPT !.calls[k].argsWired[pos] = ptr]
    IN [A3 EXCEPT !.calls[k].log = Append(@, <<"toWireType", pos>>)]

RECURSIVE ConvertArguments(_, _, _, _)
ConvertArguments(A, k, i, allocates) ==
    IF i > expectedArgCount(A.I) THEN A
    ELSE ConvertArguments(toWireType(A, k, i, A.I.argTypes[i + 2], allocates[i + 1]),
                          k, i + 1, allocates)

\* The invoker, up to and including its call of cppInvokerFunc: nargs
\* arguments; allocates[1] is for this, allocates[i + 1] for parameter i.
\* (the argument count is checked after the arguments were converted)
Invoke_checkLate(A, nargs, allocates) ==
    LET k == Len(A.calls) + 1
        A0 == [A EXCEPT !.calls = Append(@, [status |-> "converting", thisWired |-> 0,
                                              argsWired |-> [i \in 1..expectedArgCount(A.I) |-> 0],
                                              destructors |-> <<>>, log |-> <<>>]),
                        !.I.destructors = IF A.I.dynamicExecution = 0 THEN <<>> ELSE @]
        A1 == IF isClassMethodFunc(A.I)
              THEN toWireType(A0, k, 0, A.I.argTypes[2], allocates[1]) ELSE A0
        A2 == ConvertArguments(A1, k, 1, allocates)
    IN IF nargs # expectedArgCount(A.I)
       THEN [A2 EXCEPT !.err = "BindingError: called with wrong number of arguments",
                       !.rejected = nargs]
       ELSE [A2 EXCEPT !.calls[k].status = "native",
                       !.calls[k].log = Append(@, <<"invoke", 0>>),
                       !.stack = Append(@, k)]

Invoke(A, nargs, allocates) ==
    IF nargs # expectedArgCount(A.I)
    THEN [A EXCEPT !.err = "BindingError: called with wrong number of arguments",
                   !.rejected = nargs]
    ELSE LET k == Len(A.calls) + 1
             A0 == [A EXCEPT !.calls = Append(@, [status |-> "converting", thisWired |-> 0,
                                                   argsWired |-> [i \in 1..expectedArgCount(A.I) |-> 0],
                                                   destructors |-> <<>>, log |-> <<>>]),
                             !.I.destructors = IF A.I.dynamicExecution = 0 THEN <<>> ELSE @]
             A1 == IF isClassMethodFunc(A.I)
                   THEN toWireType(A0, k, 0, A.I.argTypes[2], allocates[1]) ELSE A0
             A2 == ConvertArguments(A1, k, 1, allocates)
         IN [A2 EXCEPT !.calls[k].status = "native",
                       !.calls[k].log = Append(@, <<"invoke", 0>>),
                       !.stack = Append(@, k)]

\* del(ptr) of a cleanup entry, or destructorFunction(param), run by invocation k.
Free(A, k, how, ptr) ==
    [A EXCEPT !.freed = IF ptr \in DOMAIN @ THEN [@ EXCEPT ![ptr] = @ + 1] ELSE @,
              !.calls[k].log = Append(@, <<how, ptr>>)]

\* runDestructors(destructors), for the list invocation k sees.
RECURSIVE runDestructors(_, _)
runDestructors(A, k) ==
    LET list == IF A.I.dynamicExecution = 0 THEN A.I.destructors ELSE A.calls[k].destructors
        rest == SubSeq(list, 1, Len(list) - 1)
    IN IF list = <<>> THEN A
       ELSE runDestructors(
                Free(IF A.I.dynamicExecution = 0
                     THEN [A EXCEPT !.I.destructors = rest]
                     ELSE [A EXCEPT !.calls[k].destructors = rest],
                     k, "runDestructors", list[Len(list)]),
                k)

\* The loop over argTypes that applies the static destructors.
RECURSIVE staticDestructors(_, _, _)
staticDestructors(A, k, i) ==
    IF i > Len(A.I.argTypes) - 1 THEN A
    ELSE LET param == IF i = 1 THEN A.calls[k].thisWired
                      ELSE IF A.I.dynamicExecution = 0 THEN A.I.argsWired[i - 1]
                      ELSE A.calls[k].argsWired[i - 1]
         IN staticDestructors(
                IF destructorFunction(A.I.argTypes[i + 1]) # "null"
                THEN Free(A, k, "destructorFunction", param) ELSE A,
                k, i + 1)

Cleanup(A, k) ==
    LET A1 == [A EXCEPT !.calls[k].log = Append(@, <<"cleanup", 0>>)]
    IN IF needsDestructorStack(A.I) THEN runDestructors(A1, k)
       ELSE staticDestructors(A1, k, IF isClassMethodFunc(A.I) THEN 1 ELSE 2)

ConvertReturn(A, k) ==
    IF returns(A.I) THEN [A EXCEPT !.calls[k].log = Append(@, <<"fromWireType", 0>>)] ELSE A

\* (the return value is converted before the cleanup runs)
onDone_convertFirst(A, k) ==
    [Cleanup(ConvertReturn(A, k), k) EXCEPT !.calls[k].status = "done"]

\* onDone(rv) of invocation k
onDone(A, k) ==
    [ConvertReturn(Cleanup(A, k), k) EXCEPT !.calls[k].status = "done"]

\* Whether the invoker hands onDone to a promise instead of calling it:
\* suspended says whether Asyncify.currData is set when cppInvokerFunc returns.
Defers(I, suspended) ==
    \/ I.asyncify = 1 /\ suspended
    \/ I.asyncify = 2 /\ I.isAsync

\* cppInvokerFunc returns to the innermost invocation.
AfterNativeCall(A, suspended) ==
    LET k == A.stack[Len(A.stack)]
        A1 == [A EXCEPT !.stack = SubSeq(@, 1, Len(@) - 1)]
    IN IF Defers(A.I, suspended)
       THEN [A1 EXCEPT !.calls[k].status = "suspended",
                       !.calls[k].log = Append(@, <<"suspend", 0>>)]
       ELSE onDone([A1 EXCEPT !.calls[k].log = Append(@, <<"return", 0>>)], k)

\* The promise of suspended invocation k resolves: the native call has resumed
\* and completed.
Resume(A, k) ==
    onDone([A EXCEPT !.calls[k].log = Append(@, <<"resume", 0>>)], k)

\* ------------------------------------------------------------- primitive types
\* A host value: a number or a boolean (v is 1 for true, 0 for false).  wraps
\* marks a number that is v + 2^32, which `>>> 0` makes of a negative one.
Number(n) == [type |-> "number", v |-> n, wraps |-> 0]
Boolean(b) == [type |-> "boolean", v |-> IF b THEN 1 ELSE 0, wraps |-> 0]
Truthy(value) == value.v # 0

\* value >>> 0
UnsignedShiftRight0(value) ==
    IF value.v >= 0 THEN Number(value.v) ELSE [Number(value.v) EXCEPT !.wraps = 1]

\* (value << bitshift) >>> bitshift: the low 32 - bitshift bits of value.
ShiftLeftRight(value, bitshift) ==
    IF bitshift = 0 THEN UnsignedShiftRight0(value)
    ELSE Number(value.v % (2 ^ (32 - bitshift)))

\* The descriptor _embind_register_integer hands to registerType.
IntegerType(name, size, minRange, maxRange) ==
    [kind |-> "integer", name |-> name, size |-> size, minRange |-> minRange,
     maxRange |-> maxRange, trueValue |-> 0, falseValue |-> 0, argPackAdvance |-> 8]

\* The descriptor _embind_register_bool hands to registerType.
BoolType(name, size, trueValue, falseValue) ==
    [kind |-> "bool", name |-> name, size |-> size, minRange |-> 0, maxRange |-> 0,
     trueValue |-> trueValue, falseValue |-> falseValue, argPackAdvance |-> 8]

\* The descriptor _embind_register_memory_view hands to registerType.
MemoryViewType(name) ==
    [kind |-> "memory_view", name |-> name, size |-> 0, minRange |-> 0, maxRange |-> 0,
     trueValue |-> 0, falseValue |-> 0, argPackAdvance |-> 8]

\* name.includes('unsigned')
isUnsignedType(name) == name \in {"unsigned char", "unsigned short"}

\* The outcome of a conversion: the value made, or the error thrown.
Converted(value) == [err |-> <<>>, value |-> value]
Thrown(err) == [err |-> err, value |-> Number(0)]

\* checkAssertions(value, toTypeName) of _embind_register_integer: the error
\* it throws, <<>> if none.  Its body is compiled in under ASSERTIONS only.
checkAssertions(assertions, d, value, toTypeName) ==
    IF assertions = 0 THEN <<>>
    ELSE IF value.type # "number" /\ value.type # "boolean"
    THEN <<"TypeError", "Cannot convert", value, toTypeName>>
    ELSE IF value.v < d.minRange \/ value.v > d.maxRange
    THEN <<"TypeError", "outside the valid range", value, d.name>>
    ELSE <<>>

\* descriptor.toWireType(destructors, value)
primitive_toWireType(assertions, d, value) ==
    IF d.kind = "bool"
    THEN Converted(Number(IF Truthy(value) THEN d.trueValue ELSE d.falseValue))
    ELSE LET err == checkAssertions(assertions, d, value, d.name)
         IN IF err # <<>> THEN Thrown(err)
            ELSE IF isUnsignedType(d.name) THEN Converted(UnsignedShiftRight0(value))
            ELSE Converted(value)

\* descriptor.fromWireType(wt)
primitive_fromWireType(d, wt) ==
    IF d.kind = "bool" THEN Boolean(Truthy(wt))
    ELSE IF d.minRange = 0 THEN ShiftLeftRight(wt, 32 - 8 * d.size)
    ELSE wt

\* Nothing is registered, nothing was converted.
NoConversion == [type |-> "", value |-> Number(0), wire |-> Converted(Number(0)),
                 back |-> Number(0)]
NoRegistry == [ASSERTIONS |-> 1, descriptors |-> <<>>, err |-> "", conversion |-> NoConversion]

\* sharedRegisterType(rawType, registeredInstance, options): a type id gets
\* its descriptor once.
sharedRegisterType(S, rawType, registeredInstance, options) ==
    IF rawType \in DOMAIN S.descriptors
    THEN IF options.ignoreDuplicateRegistrations THEN [S EXCEPT !.err = ""]
         ELSE [S EXCEPT !.err = "DuplicateTypeError"]
    ELSE [S EXCEPT !.descriptors = (rawType :> registeredInstance) @@ @, !.err = ""]

\* (the options are not handed on)
registerTypeWithOptions_dropped(S, rawType, registeredInstance, options) ==
    sharedRegisterType(S, rawType, registeredInstance, [ignoreDuplicateRegistrations |-> FALSE])

\* registerType(rawType, registeredInstance, options = {})
registerTypeWithOptions(S, rawType, registeredInstance, options) ==
    IF "argPackAdvance" \notin DOMAIN registeredInstance
    THEN [S EXCEPT !.err = "TypeError: registerType registeredInstance requires argPackAdvance"]
    ELSE sharedRegisterType(S, rawType, registeredInstance, options)

NoOptions == [ignoreDuplicateRegistrations |-> FALSE]

\* _embind_register_integer(primitiveType, name, size, minRange, maxRange);
\* the maxRange of -1 that stands for 4294967295 is left out (the 32-bit
\* unsigned types do not fit TLC's integers).
embind_register_integer(S, primitiveType, name, size, minRange, maxRange) ==
    registerTypeWithOptions(S, primitiveType, IntegerType(name, size, minRange, maxRange),
                            NoOptions)

\* _embind_register_bool(rawType, name, size, trueValue, falseValue)
embind_register_bool(S, rawType, name, size, trueValue, falseValue) ==
    registerTypeWithOptions(S, rawType, BoolType(name, size, trueValue, falseValue), NoOptions)

\* _embind_register_memory_view(rawType, dataTypeIndex, name)
embind_register_memory_view(S, rawType, name) ==
    registerTypeWithOptions(S, rawType, MemoryViewType(name),
                            [ignoreDuplicateRegistrations |-> TRUE])

\* ------------------------------------------------------------- the invoker's conversions
\* What the invoker of a method with a pointer parameter of type T and an
\* integer parameter of descriptor d does before cppInvokerFunc: `this` is
\* converted, then the arguments in order, and an exception thrown by a
\* toWireType leaves the invoker at once.
\* (an exception of a conversion is swallowed)
invokerFunction_callsAnyway(S, assertions, thisType, this_, T, handle, d, value) ==
    LET S1 == RegisteredPointer_toWireType(S, thisType, TRUE, this_)
        S2 == RegisteredPointer_toWireType([S1 EXCEPT !.err = ""], T, TRUE, handle)
    IN Native([S2 EXCEPT !.err = ""], "method")

invokerFunction(S, assertions, thisType, this_, T, handle, d, value) ==
    LET S1 == RegisteredPointer_toWireType(S, thisType, TRUE, this_)
        S2 == IF S1.err # "" THEN S1 ELSE RegisteredPointer_toWireType(S1, T, TRUE, handle)
        wire == primitive_toWireType(assertions, d, value)
        S3 == IF S2.err # "" \/ wire.err = <<>> THEN S2 ELSE Throw(S2, wire.err[1])
    IN Native(S3, "method")

\* ------------------------------------------------------------- actions
Usable(h) == h \in 1..Len(hs) /\ h \notin collected

\* The model explores reference counts down to -MaxNeg: a release is explored
\* while the count, less the releases already queued on the cell, is above it.
Queued(c) == Cardinality({i \in 1..Len(deletionQueue) : hs[deletionQueue[i]].count = c})
Budget(h) == cnt[hs[h].count] - Queued(hs[h].count) > -MaxNeg

CommitHandles(S) ==
    /\ Len(S.hs) <= MaxHandles
    /\ Len(S.q) <= MaxQueue
    /\ \A c \in 1..Len(S.cnt) : S.cnt[c] <= MaxCount
    /\ hs' = S.hs
    /\ cloneOf' = S.org
    /\ cnt' = S.cnt
    /\ deletionQueue' = S.q
    /\ delayFunction' = S.dly
    /\ registeredInstances' = S.reg
    /\ finalizers' = S.fin
    /\ collected' = S.col
    /\ spPointee' = S.spP
    /\ objClass' = S.oCls
    /\ objAlive' = S.oAlive
    /\ objShared' = S.oShared
    /\ wrapperOf' = S.wrap
    /\ destroyed' = S.dead
    /\ pendingFlush' = S.pend

Commit(S) ==
    /\ CommitHandles(S)
    /\ UNCHANGED <<ovars, avars, cast, argument, registry>>

\* The conversion of what native code returns: a value of type t that points
\* to object o (0: null) of dynamic class dyn.
NativeReturn(t, o, dyn) == NativeValue(NativeObject(Cur(0, 0), o, dyn), t, o)

ReturnValue(t, o, dyn) ==
    RegisteredPointer_fromWireType(NativeReturn(t, o, dyn), t,
                                   WirePtr(NativeReturn(t, o, dyn), t, o))

\* A bound function returns a pointer or smart pointer to the host.
FromWireTypeOf(types) ==
    \E t \in types, o \in 0..MaxObjects, dyn \in {"Base", "Derived"} :
        /\ CanReturn(t, o, dyn)
        /\ Commit(ReturnValue(t, o, dyn))

FromWireType == FromWireTypeOf(RetTypes)

\* A host-side subclass instance is constructed.
ConstructInheritedOf(types) ==
    \E t \in types :
        /\ FreeObjects # {}
        /\ CanReturn(t, Lowest(FreeObjects), "Derived")
        /\ LET o == Lowest(FreeObjects)
               S0 == NativeValue(NativeObject(Cur(0, 0), o, "Derived"), t, o)
               ptr == WirePtr(S0, t, o)
           IN Commit(Construct(S0, t, ptr))

ConstructInherited == ConstructInheritedOf({"Derived*", "sp<Derived>"})

Clone ==
    \E h \in 1..MaxHandles :
        /\ Usable(h)
        /\ Commit(ClassHandle_clone(Cur(0, 0), h))

Delete ==
    \E h \in 1..MaxHandles :
        /\ Usable(h)
        /\ Budget(h)
        /\ Commit(ClassHandle_delete(Cur(0, 0), h))

DeleteLater ==
    \E h \in 1..MaxHandles :
        /\ Usable(h)
        /\ Budget(h)
        /\ Commit(ClassHandle_deleteLater(Cur(0, 0), h))

\* Module.flushPendingDeletes(), called by the host program; a destructor run
\* by the flush may call back into host code that calls deleteLater.
Flush ==
    \E cbT \in 0..MaxHandles, cbG \in 0..MaxHandles :
        /\ (cbT = 0) = (cbG = 0)
        /\ cbT # 0 => Usable(cbT) /\ Usable(cbG)
        /\ Commit(flushPendingDeletes(Cur(cbT, cbG)))

\* The flush an asynchronous scheduler hook was given runs.
RunScheduledFlush ==
    /\ pendingFlush > 0
    /\ Commit(flushPendingDeletes([Cur(0, 0) EXCEPT !.pend = 0]))

SetDelayFunction ==
    \E fn \in {"undefined", "async", "sync"} :
        /\ fn # delayFunction
        /\ Commit(setDelayFunction(Cur(0, 0), fn))

\* The host collects an unreachable handle: the finalizationRegistry callback
\* releases the handle's record.  The deletion queue, the instance registry and
\* a native wrapper keep their handles reachable.
Finalize ==
    \E h \in 1..MaxHandles :
        /\ Usable(h)
        /\ h \in finalizers
        /\ \A i \in 1..Len(deletionQueue) : deletionQueue[i] # h
        /\ \A a \in DOMAIN registeredInstances : registeredInstances[a] # h
        /\ \A o \in Objects : wrapperOf[o] # h
        /\ LET S0 == [Cur(0, 0) EXCEPT !.fin = @ \ {h}, !.col = @ \cup {h}]
           IN Commit(releaseClassHandle(S0, h))

\* Native code drops its last reference to an object no smart pointer holds.
NativeRelease ==
    \E o \in 1..MaxObjects :
        /\ objAlive[o]
        /\ objShared[o]
        /\ LiveSpInto(Cur(0, 0), o) = {}
        /\ Commit(ObjectDies(Cur(0, 0), o))

OverloadInit ==
    /\ Module = <<>>
    /\ registeredTypes = {}
    /\ registrations = <<>>
    /\ lastCall = NoCall
    /\ instancePrototype = [c \in Classes |-> <<>>]
    /\ pureVirtualFunctions = [c \in Classes |-> {}]
    /\ typeDependencies = <<>>
    /\ constructor_body = [c \in Classes |-> <<>>]

HandleInit ==
    /\ hs = <<>>
    /\ cloneOf = <<>>
    /\ cnt = <<>>
    /\ deletionQueue = <<>>
    /\ delayFunction = "undefined"
    /\ registeredInstances = [a \in Addrs |-> 0]
    /\ finalizers = {}
    /\ collected = {}
    /\ spPointee = [j \in SmartPtrs |-> -1]
    /\ objClass = [o \in Objects |-> "free"]
    /\ objAlive = [o \in Objects |-> FALSE]
    /\ objShared = [o \in Objects |-> FALSE]
    /\ wrapperOf = [o \in Objects |-> 0]
    /\ destroyed = {}
    /\ pendingFlush = 0

\* No invoker has been crafted.
NoInvoker ==
    [dynamicExecution |-> 1, asyncify |-> 0, isAsync |-> FALSE, argTypes |-> <<"void", "null">>,
     argsWired |-> <<>>, destructors |-> <<>>]

InvokerIdle ==
    /\ invoker = NoInvoker
    /\ invocations = <<>>
    /\ callStack = <<>>
    /\ freed = <<>>
    /\ rejected = -1

NoCast ==
    [ptr |-> 0, ptrClass |-> "Base", desiredClass |-> "Base", called |-> FALSE,
     result |-> [ptr |-> 0, err |-> "", steps |-> 0],
     downcastCalled |-> FALSE, downcastResult |-> 0]

\* No handle has been passed to a bound function.
NoArgument ==
    [op |-> "none", handle |-> 0, type |-> "Base*", sharingPolicy |-> 0, err |-> "",
     ptr |-> 0, count |-> 0, native |-> FALSE, minted |-> 0, clonedHandle |-> 0,
     released |-> FALSE]

Init ==
    /\ HandleInit /\ OverloadInit /\ InvokerIdle /\ cast = NoCast /\ argument = NoArgument
    /\ registry = NoRegistry

\* Ownership: creation, clone, delete, finalization.
Next ==
    \/ FromWireType
    \/ ConstructInherited
    \/ Clone
    \/ Delete
    \/ Finalize
    \/ NativeRelease

Spec == Init /\ [][Next]_vars

\* The deletion queue, over raw handles and host-side subclass instances:
\* handles are deleted by the flush only.
ReturnRaw == FromWireTypeOf({"Base*"})
ConstructRaw == ConstructInheritedOf({"Derived*"})

QueueNext ==
    \/ ReturnRaw
    \/ ConstructRaw
    \/ Clone
    \/ DeleteLater
    \/ Flush
    \/ RunScheduledFlush
    \/ SetDelayFunction

QueueSpec == Init /\ [][QueueNext]_vars

\* The same program with a scheduler that keeps its word: a hook that was
\* handed the flush runs it in the end.  RunScheduledFlush is the one action
\* that takes pendingFlush to 0, and it can be taken whenever a flush is
\* pending, so the fairness is stated on that step.
HookRunsFlush == pendingFlush > 0 /\ pendingFlush' = 0
QueueLiveSpec == Init /\ [][QueueNext]_vars /\ WF_pendingFlush(HookRunsFlush)

\* Overloads: functions and types are registered, public symbols are called.
CommitOverload(O, call) ==
    /\ Module' = O.M
    /\ registeredTypes' = O.types
    /\ registrations' = O.regs
    /\ instancePrototype' = O.P
    /\ pureVirtualFunctions' = O.pv
    /\ typeDependencies' = O.deps
    /\ constructor_body' = O.ctor
    /\ lastCall' = [call EXCEPT !.err = IF O.err # "" THEN O.err ELSE @]
    /\ UNCHANGED <<hvars, avars, cast, argument, registry>>

\* Native code registers a function of argCount - 1 parameters.
RegisterFunction ==
    \E name \in Names, n \in 0..MaxArity, rt \in TypeIds, pt \in TypeIds :
        /\ Len(registrations) < MaxRegistrations
        /\ CommitOverload(
               embind_register_function(OverloadState, name, n + 1,
                                        [i \in 1..(n + 1) |-> IF i = 1 THEN rt ELSE pt]),
               [NoCall EXCEPT !.op = "register", !.name = name, !.nargs = n])

RegisterType ==
    \E t \in TypeIds :
        /\ t \notin registeredTypes
        /\ CommitOverload(registerType(OverloadState, t), [NoCall EXCEPT !.op = "registerType"])

CallSymbol ==
    \E name \in DOMAIN Module, nargs \in 0..(MaxArity + 1) :
        CommitOverload(OverloadState, CallPublicSymbol(OverloadState, name, nargs))

OverloadNext ==
    \/ RegisterFunction
    \/ RegisterType
    \/ CallSymbol

OverloadSpec == Init /\ [][OverloadNext]_vars

\* The dependency walk: value objects wait for their field types, leaf types
\* are registered, and a call that needs unregistered types is refused.
WalkTypes == TypeIds \cup {"C"}
TypeLists(n) == UNION {[1..k -> WalkTypes] : k \in 1..n}

AwaitDependentTypes ==
    \E myType \in WalkTypes, dependentTypes \in TypeLists(MaxDeps) :
        /\ myType \notin registeredTypes
        /\ myType \notin DOMAIN typeDependencies
        /\ Cardinality(DOMAIN typeDependencies) < MaxAwaiting
        /\ CommitOverload(awaitDependentTypes(OverloadState, myType, dependentTypes),
                          [NoCall EXCEPT !.op = "await"])

RegisterLeafType ==
    \E t \in WalkTypes :
        /\ t \notin registeredTypes
        /\ t \notin DOMAIN typeDependencies
        /\ CommitOverload(registerType(OverloadState, t), [NoCall EXCEPT !.op = "registerType"])

\* A function of two types in its signature is called.
ThrowUnboundTypeError ==
    \E types \in [1..2 -> WalkTypes] :
        LET T == throwUnboundTypeError(types, registeredTypes, typeDependencies)
        IN CommitOverload(OverloadState,
                          [NoCall EXCEPT !.op = "throwUnboundTypeError", !.types = types,
                                         !.err = T.err, !.unbound = T.unbound])

WalkNext ==
    \/ AwaitDependentTypes
    \/ RegisterLeafType
    \/ ThrowUnboundTypeError

WalkSpec == Init /\ [][WalkNext]_vars

\* Methods: classes Base and Derived (the wrapper class host code extends)
\* get methods, types get descriptors, methods are called on instances and
\* host-side subclasses are instantiated.
MethodNames == {"m"}
MethodArities == {0, 1}

RegisterClassFunction ==
    \E class_ \in Classes, methodName \in MethodNames, n \in MethodArities,
       t \in TypeIds, isPureVirtual \in BOOLEAN :
        /\ Len(registrations) < MaxRegistrations
        /\ CommitOverload(
               embind_register_class_function(OverloadState, class_, methodName, n + 2,
                                              [i \in 1..(n + 2) |-> t], isPureVirtual),
               [NoCall EXCEPT !.op = "register", !.name = methodName, !.nargs = n])

CallInstanceMethod ==
    \E class_ \in Classes, methodName \in MethodNames,
       nargs \in 0..(Max(MethodArities) + 1) :
        /\ Owner(instancePrototype, class_, methodName) # "none"
        /\ CommitOverload(OverloadState, CallMethod(OverloadState, class_, methodName, nargs))

NewSubclassInstance ==
    \E properties \in SUBSET MethodNames :
        CommitOverload(OverloadState, InheritingConstructor(OverloadState, "Derived", properties))

MethodNext ==
    \/ RegisterClassFunction
    \/ RegisterType
    \/ CallInstanceMethod
    \/ NewSubclassInstance

MethodSpec == Init /\ [][MethodNext]_vars

\* Constructors: native code registers constructors and types, host code
\* constructs.
RegisterClassConstructor ==
    \E class_ \in Classes, n \in 0..MaxArity, t \in TypeIds :
        /\ Len(registrations) < MaxRegistrations
        /\ CommitOverload(
               embind_register_class_constructor(OverloadState, class_, n + 1,
                                                 [i \in 1..(n + 1) |-> t]),
               [NoCall EXCEPT !.op = "register", !.name = class_, !.nargs = n])

NewInstance ==
    \E class_ \in Classes, nargs \in 0..(MaxArity + 1) :
        CommitOverload(OverloadState, CallConstructor(OverloadState, class_, nargs))

ConstructorNext ==
    \/ RegisterClassConstructor
    \/ RegisterType
    \/ NewInstance

ConstructorSpec == Init /\ [][ConstructorNext]_vars

\* Call adapters: one invoker, crafted for some signature in some build, is
\* called from host code, also while earlier calls are inside their native
\* call or suspended in it.
Signatures ==
    {<<r, t>> \o ps : r \in ReturnKinds, t \in ThisKinds,
                      ps \in UNION {[1..m -> ParamKinds] : m \in 0..MaxParams}}

AdapterInit ==
    /\ HandleInit /\ OverloadInit
    /\ \E argTypes \in Signatures, isAsync \in BOOLEAN,
          dynamicExecution \in {0, 1}, asyncify \in {0, 1, 2} :
           /\ isAsync => asyncify = 2
           /\ invoker = craftInvokerFunction(argTypes, isAsync, dynamicExecution, asyncify)
    /\ cast = NoCast
    /\ argument = NoArgument
    /\ registry = NoRegistry
    /\ invocations = <<>>
    /\ callStack = <<>>
    /\ freed = <<>>
    /\ rejected = -1

CommitAdapter(A) ==
    /\ invoker' = A.I
    /\ invocations' = A.calls
    /\ callStack' = A.stack
    /\ freed' = A.freed
    /\ rejected' = A.rejected
    /\ UNCHANGED <<hvars, ovars, cast, argument, registry>>

\* What a conversion of a "pointer" parameter may do; the other kinds leave
\* no choice, and `this` is a raw pointer, whose conversion allocates nothing.
Allocations(I) ==
    {al \in [1..(MaxParams + 1) -> BOOLEAN] :
        /\ ~al[1]
        /\ \A i \in 2..(MaxParams + 1) :
               (i + 1 > Len(I.argTypes) \/ I.argTypes[i + 1] # "pointer") => al[i]}

\* Host code calls the invoker, with the declared number of arguments, one
\* less or one more: from the top level, or from a callback that the native
\* call of the innermost invocation runs.
CallInvoker ==
    \E nargs \in {n \in 0..(MaxParams + 1) :
                     n - expectedArgCount(invoker) \in {-1, 0, 1}},
       allocates \in Allocations(invoker) :
        /\ nargs = expectedArgCount(invoker) => Len(invocations) < MaxInvocations
        /\ nargs # expectedArgCount(invoker) => rejected = -1
        /\ CommitAdapter(Invoke(AdapterState, nargs, allocates))

\* The native call of the innermost invocation returns.
NativeCallReturns ==
    /\ callStack # <<>>
    /\ CommitAdapter(AfterNativeCall(AdapterState, FALSE))

\* The native call of the only invocation on the stack suspends (ASYNCIFY == 1).
NativeCallSuspends ==
    /\ Len(callStack) = 1
    /\ invoker.asyncify = 1
    /\ CommitAdapter(AfterNativeCall(AdapterState, TRUE))

\* The promise of a suspended invocation resolves, at the top level.
NativeCallResumes ==
    \E k \in 1..Len(invocations) :
        /\ invocations[k].status = "suspended"
        /\ callStack = <<>>
        /\ CommitAdapter(Resume(AdapterState, k))

AdapterNext ==
    \/ CallInvoker
    \/ NativeCallReturns
    \/ NativeCallSuspends
    \/ NativeCallResumes

AdapterSpec == AdapterInit /\ [][AdapterNext]_vars

\* Casts: upcastPointer and downcastPointer are called with an address and two
\* classes.
CastClasses == Classes \cup {"MostDerived", "Other"}

CastInit ==
    /\ HandleInit /\ OverloadInit /\ InvokerIdle
    /\ argument = NoArgument
    /\ registry = NoRegistry
    /\ \E ptr \in Addrs, ptrClass \in CastClasses, desiredClass \in CastClasses :
           cast = [NoCast EXCEPT !.ptr = ptr, !.ptrClass = ptrClass,
                                 !.desiredClass = desiredClass]

CallUpcastPointer ==
    /\ ~cast.called
    /\ cast' = [cast EXCEPT !.called = TRUE,
                            !.result = upcastPointer(cast.ptr, cast.ptrClass, cast.desiredClass)]
    /\ UNCHANGED <<hvars, ovars, avars, argument, registry>>

CallDowncastPointer ==
    /\ ~cast.downcastCalled
    /\ cast' = [cast EXCEPT !.downcastCalled = TRUE,
                            !.downcastResult =
                                downcastPointer(cast.ptr, cast.ptrClass, cast.desiredClass)]
    /\ UNCHANGED <<hvars, ovars, avars, argument, registry>>

CastNext ==
    \/ CallUpcastPointer
    \/ CallDowncastPointer

CastSpec == CastInit /\ [][CastNext]_vars

\* Arguments: handles are returned and constructed, host code deletes them,
\* and one of them (or null) is passed to a bound function whose parameter has
\* some pointer type; what native code minted for the call it lets go later.
ParameterTypes == {"Base*", "Base const*", "Derived*", "sp<Base>", "sp<Derived>"}
SharingPolicies == {0, 1, 2}

\* Handles are made before the call that passes one, and leave room for the
\* clone that call may make.
MayMakeHandle == argument.op = "none" /\ Len(hs) < MaxHandles - 1
ReturnToHost == MayMakeHandle /\ FromWireTypeOf({"Base*", "Base const*", "sp<Base>"})
ConstructShared == MayMakeHandle /\ ConstructInheritedOf({"sp<Derived>"})

\* The rawShare of the call: <<"rawShare", smart pointer, cloned handle>>.
Minted(R) == SelectSeq(R.tr, LAMBDA e : e[1] = "rawShare")

PassHandle ==
    \E t \in ParameterTypes, sharingPolicy \in SharingPolicies, handle \in 0..MaxHandles :
        /\ argument.op = "none"
        /\ handle = 0 \/ Usable(handle)
        /\ RegisteredPointer(t).isSmartPointer => FreeSmartPtrs # {}
        /\ ~RegisteredPointer(t).isSmartPointer => sharingPolicy = 0
        /\ LET R == PassArgument(Cur(0, 0), ParameterType(t, sharingPolicy), handle)
           IN /\ CommitHandles(R)
              /\ argument' =
                     [op |-> "pass", handle |-> handle, type |-> t,
                      sharingPolicy |-> sharingPolicy, err |-> R.err, ptr |-> R.ret,
                      count |-> IF handle = 0 THEN 0 ELSE cnt[hs[handle].count],
                      native |-> \E i \in 1..Len(R.tr) : R.tr[i][1] = "native",
                      minted |-> IF Minted(R) = <<>> THEN 0 ELSE Minted(R)[1][2],
                      clonedHandle |-> IF Minted(R) = <<>> THEN 0 ELSE Minted(R)[1][3],
                      released |-> FALSE]
              /\ UNCHANGED <<ovars, avars, cast, registry>>

\* Host code deletes a handle it holds; the clone a closure captured it cannot
\* reach (the clone of a host-side subclass instance is the instance itself).
HostDelete ==
    \E h \in 1..MaxHandles :
        /\ Usable(h)
        /\ cnt[hs[h].count] > 0
        /\ h = argument.clonedHandle => hs[h].preservePointerOnDelete \/ argument.released
        /\ Commit(ClassHandle_delete(Cur(0, 0), h))

\* Native code lets go of the smart pointer rawShare made: its deleter calls
\* the closure, which deletes the cloned handle.
ReleaseMinted ==
    /\ argument.minted # 0
    /\ ~argument.released
    /\ CommitHandles(ClassHandle_delete(SmartPtrRawDestructor(Cur(0, 0), argument.minted),
                                        argument.clonedHandle))
    /\ argument' = [argument EXCEPT !.released = TRUE]
    /\ UNCHANGED <<ovars, avars, cast, registry>>

ArgumentNext ==
    \/ ReturnToHost
    \/ ConstructShared
    \/ HostDelete
    \/ PassHandle
    \/ ReleaseMinted

ArgumentSpec == Init /\ [][ArgumentNext]_vars

\* ---- registration of primitive types and conversion of values
\* The integer types the native side registers: name, size, minRange, maxRange.
IntegerTypes ==
    {<<"signed char", 1, -128, 127>>, <<"unsigned char", 1, 0, 255>>,
     <<"short", 2, -32768, 32767>>, <<"unsigned short", 2, 0, 65535>>}

\* The values host code passes to a parameter of descriptor d.
Values(d) ==
    IF d.kind = "bool" THEN {Boolean(TRUE), Boolean(FALSE), Number(0), Number(2)}
    ELSE {Number(n) : n \in {d.minRange - 1, d.minRange, 0, 1, d.maxRange, d.maxRange + 1}}

RegistryInit ==
    /\ HandleInit /\ OverloadInit /\ InvokerIdle /\ cast = NoCast /\ argument = NoArgument
    /\ \E assertions \in {0, 1} : registry = [NoRegistry EXCEPT !.ASSERTIONS = assertions]

CommitRegistry(S) ==
    /\ registry' = [S EXCEPT !.conversion = NoConversion]
    /\ UNCHANGED <<hvars, ovars, avars, cast, argument>>

RegisterInteger ==
    \E rawType \in TypeIds, t \in IntegerTypes :
        CommitRegistry(embind_register_integer(registry, rawType, t[1], t[2], t[3], t[4]))

RegisterBool ==
    \E rawType \in TypeIds :
        CommitRegistry(embind_register_bool(registry, rawType, "bool", 1, 1, 0))

RegisterMemoryView ==
    \E rawType \in TypeIds :
        CommitRegistry(embind_register_memory_view(registry, rawType, "emscripten::memory_view<char>"))

\* A value goes to native code and comes back through the descriptor of
\* rawType.
ConvertValue ==
    /\ \E rawType \in DOMAIN registry.descriptors :
           LET d == registry.descriptors[rawType]
           IN /\ d.kind # "memory_view"
              /\ \E value \in Values(d) :
                     LET wire == primitive_toWireType(registry.ASSERTIONS, d, value)
                     IN registry' = [registry EXCEPT
                            !.err = "",
                            !.conversion = [type |-> rawType, value |-> value, wire |-> wire,
                                            back |-> IF wire.err = <<>>
                                                     THEN primitive_fromWireType(d, wire.value)
                                                     ELSE Number(0)]]
    /\ UNCHANGED <<hvars, ovars, avars, cast, argument>>

RegistryNext ==
    \/ RegisterInteger
    \/ RegisterBool
    \/ RegisterMemoryView
    \/ ConvertValue

RegistrySpec == RegistryInit /\ [][RegistryNext]_vars

\* ============================================================= properties
IsDtor(e) == e[1] \in {"spDtor", "rawDtor"}
Dtors(R) == SelectSeq(R.tr, IsDtor)
Count(tr, kind) == Cardinality({i \in 1..Len(tr) : tr[i][1] = kind})

\* No destructor call of R hits a smart pointer or object that a destructor
\* was called on before, in an earlier call or earlier in R.
DestroysOnce(R) ==
    \A i \in 1..Len(Dtors(R)) :
        /\ Entity(Dtors(R)[i][2]) \notin destroyed
        /\ \A k \in 1..(i - 1) : Entity(Dtors(R)[k][2]) # Entity(Dtors(R)[i][2])

\* The returns native code can make of an object that is alive.
Returns == {x \in RetTypes \X Objects : objAlive[x[2]] /\ CanReturn(x[1], x[2], objClass[x[2]])}
ReturnOf(x) == ReturnValue(x[1], x[2], objClass[x[2]])
ReturnedPtr(x) == WirePtr(NativeReturn(x[1], x[2], objClass[x[2]]), x[1], x[2])
ReturnedRaw(x) == RawAddr(Cur(0, 0), x[1], x[2])
\* The registry's entry for the returned address.
InstanceOf(x) ==
    registeredInstances[getBasestPointer(RegisteredPointer(x[1]).registeredClass,
                                         ReturnedRaw(x))]

\* C1 (as the spec states it): whatever handle operations came before, no
\* delete, finalizer release or return-value conversion invokes a native
\* destructor on a smart pointer or object whose destructor was already invoked.
C1_DestructorAtMostOnce ==
    /\ \A h \in 1..Len(hs) : Usable(h) => DestroysOnce(ClassHandle_delete(Cur(0, 0), h))
    /\ \A h \in finalizers : Usable(h) => DestroysOnce(releaseClassHandle(Cur(0, 0), h))
    /\ \A x \in Returns : DestroysOnce(ReturnOf(x))

\* C2: delete(h) on a handle that has its pointer lowers the shared count by
\* exactly 1 and invokes a destructor iff the count has become 0: the smart
\* pointer's destructor on smartPtr when the record has one, else the class's
\* raw destructor on ptr.
C2_DeleteReleases ==
    \A h \in 1..Len(hs) :
        (Usable(h) /\ hs[h].ptr # 0
         /\ (hs[h].deleteScheduled => hs[h].preservePointerOnDelete)) =>
            LET R == ClassHandle_delete(Cur(0, 0), h)
                c == hs[h].count
            IN /\ R.err = ""
               /\ R.cnt = [cnt EXCEPT ![c] = @ - 1]
               /\ (Dtors(R) # <<>>) <=> (R.cnt[c] = 0)
               /\ Dtors(R) # <<>> =>
                      Dtors(R) = << IF hs[h].smartPtr # 0
                                    THEN <<"spDtor", hs[h].smartPtr>>
                                    ELSE <<"rawDtor", hs[h].ptr>> >>

\* C2's case: the only handle made was deleted, which took its count to 0 and
\* ran a destructor.
C2_Witness ==
    /\ Len(hs) = 1
    /\ hs[1].ptr = 0
    /\ cnt[hs[1].count] = 0
    /\ destroyed # {}

\* C3 (as the spec states it): after a delete(h) that succeeded, delete(h)
\* fails with the already-deleted error, changes no count and invokes no
\* destructor.
C3_SecondDeleteFails ==
    \A h \in 1..Len(hs) :
        Usable(h) =>
            LET R1 == [ClassHandle_delete(Cur(0, 0), h) EXCEPT !.tr = <<>>]
                R2 == ClassHandle_delete(R1, h)
            IN R1.err = "" =>
                   R2.err = AlreadyDeleted /\ R2.cnt = R1.cnt /\ Dtors(R2) = <<>>

\* C4: clone(h) on a handle that has its pointer raises the shared count by
\* exactly 1 and returns h itself when preservePointerOnDelete is set, else a
\* new handle on the same count cell; on a handle without pointer it fails
\* with the already-deleted error and changes no count.
C4_Clone ==
    \A h \in 1..Len(hs) :
        Usable(h) =>
            LET R == ClassHandle_clone(Cur(0, 0), h)
                c == hs[h].count
            IN IF hs[h].ptr # 0
               THEN /\ R.err = ""
                    /\ R.cnt = [cnt EXCEPT ![c] = @ + 1]
                    /\ IF hs[h].preservePointerOnDelete
                       THEN R.ret = h /\ R.hs = hs
                       ELSE /\ R.ret = Len(hs) + 1
                            /\ Len(R.hs) = Len(hs) + 1
                            /\ SubSeq(R.hs, 1, Len(hs)) = hs
                            /\ R.hs[R.ret].count = c
               ELSE R.err = AlreadyDeleted /\ R.cnt = cnt /\ R.hs = hs

\* C4's case: a clone and the handle it was made from, on one cell that counts both.
C4_Witness ==
    \E h1 \in 1..Len(hs) :
        /\ cloneOf[h1] # 0
        /\ hs[h1].ptr # 0 /\ hs[cloneOf[h1]].ptr # 0
        /\ hs[h1].count = hs[cloneOf[h1]].count
        /\ cnt[hs[h1].count] = 2

\* C5: a clone and the handle it was cloned from are aliases of each other
\* when the clone is made, and whatever is cloned or deleted later, both read
\* the same count.
C5_CloneShares ==
    /\ \A h0 \in 1..Len(hs) :
           (Usable(h0) /\ hs[h0].ptr # 0) =>
               LET R == ClassHandle_clone(Cur(0, 0), h0)
               IN /\ ClassHandle_isAliasOf(R, R.ret, h0)
                  /\ ClassHandle_isAliasOf(R, h0, R.ret)
    /\ \A h1 \in 1..Len(hs) :
           cloneOf[h1] # 0 => cnt[hs[h1].count] = cnt[hs[cloneOf[h1]].count]

\* C5's case: a clone was made and later deleted; the handle it was made from
\* lives on, and both read the count 1.
C5_Witness ==
    \E h1 \in 1..Len(hs) :
        /\ cloneOf[h1] # 0
        /\ hs[h1].ptr = 0 /\ hs[cloneOf[h1]].ptr # 0
        /\ cnt[hs[h1].count] = 1 /\ cnt[hs[cloneOf[h1]].count] = 1

\* The callbacks a flush can meet: none, or host code that calls
\* cbG.deleteLater() from the destructor of cbT.
Callbacks ==
    {cb \in (0..Len(hs)) \X (0..Len(hs)) :
        /\ (cb[1] = 0) = (cb[2] = 0)
        /\ cb[1] # 0 => Usable(cb[1]) /\ Usable(cb[2])}

\* In a call's events, a push is followed at once by the hook's invocation
\* exactly when it made the queue's length 1, and the hook is invoked nowhere else.
HookOnFirstPush(tr) ==
    \A i \in 1..Len(tr) :
        /\ tr[i][1] = "push" =>
               ((tr[i][3] = 1) <=> (i < Len(tr) /\ tr[i + 1][1] = "hook"))
        /\ tr[i][1] = "hook" => (i > 1 /\ tr[i - 1][1] = "push")

\* C6: while a scheduler hook is set, every deleteLater, called by the host
\* or re-entrantly from a destructor that a flush runs, invokes the hook
\* exactly when its push takes the queue from empty to non-empty.
C6_HookOnTransition ==
    delayFunction # "undefined" =>
        /\ \A h \in 1..Len(hs) :
               Usable(h) => HookOnFirstPush(ClassHandle_deleteLater(Cur(0, 0), h).tr)
        /\ \A cb \in Callbacks :
               HookOnFirstPush(flushPendingDeletes(Cur(cb[1], cb[2])).tr)

\* C6's case: a deleteLater on the empty queue had the synchronous hook invoked,
\* whose flush deleted the handle before deleteLater marked it scheduled.
C6_Witness ==
    /\ delayFunction = "sync"
    /\ deletionQueue = <<>>
    /\ \E h \in 1..Len(hs) : hs[h].ptr = 0 /\ hs[h].deleteScheduled

\* C7: when flushPendingDeletes returns, the queue is empty, and every handle
\* queued at its start and every handle a re-entrant deleteLater pushed
\* meanwhile was popped and deleted by it.
C7_FlushDrains ==
    \A cb \in Callbacks :
        LET R == flushPendingDeletes(Cur(cb[1], cb[2]))
        IN R.err = "" =>
               /\ R.q = <<>>
               /\ Count(R.tr, "deleted") = Len(deletionQueue) + Count(R.tr, "push")
               /\ \A i \in 1..Len(deletionQueue) :
                      \E k \in 1..Len(R.tr) : R.tr[k] = <<"deleted", deletionQueue[i]>>
               /\ \A i \in 1..Len(R.tr) :
                      R.tr[i][1] = "push" =>
                          \E k \in (i + 1)..Len(R.tr) : R.tr[k] = <<"deleted", R.tr[i][2]>>

\* C7's case: flushes have returned, the queue is empty and two handles that
\* were queued are deleted (in QueueSpec only a flush deletes).
C7_Witness ==
    /\ deletionQueue = <<>>
    /\ \E h1, h2 \in 1..Len(hs) :
           /\ h1 # h2
           /\ hs[h1].ptr = 0 /\ ~hs[h1].deleteScheduled
           /\ hs[h2].ptr = 0 /\ ~hs[h2].deleteScheduled

\* Whether handle h is a live handle for the address a return x points to.
LiveHandleFor(h, x) ==
    /\ Usable(h) /\ hs[h].ptr # 0 /\ cnt[hs[h].count] > 0
    /\ getBasestPointer(RegisteredPointer(hs[h].ptrType).registeredClass, hs[h].ptr)
       = getBasestPointer(RegisteredPointer(x[1]).registeredClass, ReturnedRaw(x))

C9_Revive ==
    \A x \in Returns :
        LET R == ReturnOf(x)
            inst == InstanceOf(x)
        IN (inst # 0 /\ cnt[hs[inst].count] = 0) =>
               /\ R.err = "" /\ R.ret = inst
               /\ R.hs = [hs EXCEPT ![inst].ptr = ReturnedRaw(x),
                                    ![inst].smartPtr = ReturnedPtr(x)]
               /\ R.cnt = [cnt EXCEPT ![hs[inst].count] = 1]
               /\ Dtors(R) = <<>>

\* C9's case: the only handle is a registered instance whose smart pointer 1
\* was destroyed at count 0; a conversion of smart pointer 2 to the same object
\* revived it: it holds smart pointer 2, not destroyed, and its count is 1.
C9_Witness ==
    /\ Len(hs) = 1
    /\ hs[1].preservePointerOnDelete
    /\ cnt[hs[1].count] = 1
    /\ spPointee[1] > 0 /\ SpAddr(1) \in destroyed
    /\ hs[1].smartPtr = SpAddr(2) /\ SpAddr(2) \notin destroyed

\* The callable registration r stands for: its invoker once its types have
\* descriptors, its unbound-type stub before.
Callable(r) == IF registrations[r].resolved THEN <<"invoker", r>> ELSE <<"stub", r>>

\* C10 (as the spec states it): once f is registered with 1 parameter and then
\* with 2, f(a,b) runs the 2-parameter callable, f(a) the 1-parameter callable,
\* and f(a,b,c) fails with the arity error, which lists the arities 1 and 2.
C10_ArityDispatch ==
    \A name \in Names :
        (/\ Len(registrations) = 2
         /\ registrations[1].name = name /\ registrations[1].argCount - 1 = 1
         /\ registrations[2].name = name /\ registrations[2].argCount - 1 = 2) =>
            /\ CallPublicSymbol(OverloadState, name, 2).target = Callable(2)
            /\ CallPublicSymbol(OverloadState, name, 1).target = Callable(1)
            /\ LET R == CallPublicSymbol(OverloadState, name, 3)
               IN /\ R.err = "BindingError: called with an invalid number of arguments"
                  /\ R.expects = <<ToString(1), ToString(2)>>

\* C11 (as the spec states it): registering a free function under a name and a
\* parameter count that a registration already has fails with BindingError
\* and leaves the callable of that parameter count in place.
C11_OneCallablePerArity ==
    \A r \in 1..Len(registrations), rt \in TypeIds, pt \in TypeIds :
        LET reg == registrations[r]
            R == embind_register_function(
                     OverloadState, reg.name, reg.argCount,
                     [i \in 1..reg.argCount |-> IF i = 1 THEN rt ELSE pt])
        IN reg.kind = "function" =>
              /\ R.err \in {"BindingError: Cannot register public name twice",
                            "BindingError: Cannot register multiple overloads of a function with the same number of arguments"}
              /\ CallPublicSymbol(R, reg.name, reg.argCount - 1).target
                     = CallPublicSymbol(OverloadState, reg.name, reg.argCount - 1).target

\* C12 (as the spec states it): a registered function called with its declared
\* number of arguments fails with UnboundTypeError naming the types of its
\* signature without descriptor while there are any, and reaches its invoker
\* once they all have one.
C12_UnboundUntilResolved ==
    \A r \in 1..Len(registrations) :
        LET reg == registrations[r]
            R == CallPublicSymbol(OverloadState, reg.name, reg.argCount - 1)
            missing == Range(reg.argTypes) \ registeredTypes
        IN reg.kind = "function" =>
              IF missing # {}
              THEN R.err = "UnboundTypeError" /\ Range(R.unbound) = missing
              ELSE R.err = "" /\ R.target = <<"invoker", r>>

\* The types reached from the needed ones through the dependencies recorded
\* for types without descriptor.
RECURSIVE ReachedFrom(_)
ReachedFrom(types) ==
    LET more == UNION {Range(typeDependencies[u]) :
                          u \in {v \in types : v \notin registeredTypes
                                                /\ v \in DOMAIN typeDependencies}}
    IN IF more \subseteq types THEN types ELSE ReachedFrom(types \cup more)

MissingLeaves(types) ==
    {u \in ReachedFrom(types) : u \notin registeredTypes /\ u \notin DOMAIN typeDependencies}

\* C13: the UnboundTypeError raised for needed types lists exactly the types
\* without descriptor and without recorded dependencies that are reached from
\* the needed ones through the dependencies of types without descriptor, each
\* once, and no type that has a descriptor.
C13_ListsMissingLeaves ==
    \A types \in TypeLists(2) :
        LET T == throwUnboundTypeError(types, registeredTypes, typeDependencies)
        IN T.err = "UnboundTypeError" =>
              /\ Range(T.unbound) = MissingLeaves(Range(types))
              /\ Len(T.unbound) = Cardinality(Range(T.unbound))
              /\ Range(T.unbound) \cap registeredTypes = {}

\* An UnboundTypeError was raised that lists a leaf reached twice, through a
\* type that waits for it, next to a dependency that has its descriptor.
C13_Witness ==
    /\ lastCall.op = "throwUnboundTypeError"
    /\ lastCall.err = "UnboundTypeError"
    /\ Len(lastCall.types) = 2
    /\ \E u \in Range(lastCall.types) :
           /\ u \in DOMAIN typeDependencies /\ u \notin registeredTypes
           /\ Range(typeDependencies[u]) \cap registeredTypes # {}
           /\ \E leaf \in Range(typeDependencies[u]) :
                  /\ leaf \in Range(lastCall.types)
                  /\ lastCall.unbound = <<leaf>>

\* C14 (as the spec states it): for every dependency graph, cyclic ones
\* included, the walk ends by raising UnboundTypeError.
C14_WalkTerminates ==
    \A types \in TypeLists(2) :
        throwUnboundTypeError(types, registeredTypes, typeDependencies).err = "UnboundTypeError"

Has(log, what) == \E i \in 1..Len(log) : log[i][1] = what
Times(log, e) == Cardinality({i \in 1..Len(log) : log[i] = e})
CleanupEvents == {"cleanup", "runDestructors", "destructorFunction"}
NativeEvents == {"invoke", "return", "suspend", "resume"}
OwnAllocations(k) == {a \in DOMAIN freed : OwnerOf(a) = k}

\* C15: in every invocation of a call adapter the cleanup of the transient
\* parameter memory runs after the native call has completed (after it has
\* resumed, when it was suspended) and before the return value is converted,
\* and the return value is converted exactly when the return type is not void.
C15_CleanupThenConversion ==
    \A k \in 1..Len(invocations) :
        LET log == invocations[k].log
        IN IF invocations[k].status # "done"
           THEN \A i \in 1..Len(log) : log[i][1] \notin CleanupEvents \cup {"fromWireType"}
           ELSE /\ Has(log, "cleanup")
                /\ Has(log, "return") \/ Has(log, "resume")
                /\ Has(log, "suspend") => Has(log, "resume")
                /\ \A i \in 1..Len(log), j \in 1..Len(log) :
                       (log[i][1] \in CleanupEvents /\ log[j][1] \in NativeEvents) => j < i
                /\ returns(invoker) <=> Has(log, "fromWireType")
                /\ \A i \in 1..Len(log) : log[i][1] = "fromWireType" => i = Len(log)

\* An invocation that was suspended has completed: it freed a parameter and
\* then converted its return value.
C15_Witness ==
    \E k \in 1..Len(invocations) :
        LET log == invocations[k].log
        IN /\ invocations[k].status = "done"
           /\ Has(log, "suspend")
           /\ Has(log, "runDestructors") \/ Has(log, "destructorFunction")
           /\ Has(log, "fromWireType")

\* C16 (as the spec states it): also when invocations of one adapter overlap,
\* every invocation that has completed has freed each of its own transient
\* allocations exactly once, and no allocation of an invocation that has not
\* completed has been freed.
C16_OverlappingInvocations ==
    \A a \in DOMAIN freed :
        IF invocations[OwnerOf(a)].status = "done" THEN freed[a] = 1 ELSE freed[a] = 0

\* C17 (as the spec states it): a completed invocation has freed each of its
\* transient allocations exactly once: through the static destructor and no
\* cleanup list when no type of the signature needs the list, and through one
\* run of its cleanup entry and no static destructor otherwise.
C17_EachAllocationFreedOnce ==
    \A k \in 1..Len(invocations) :
        LET log == invocations[k].log
        IN invocations[k].status = "done" =>
              \A a \in OwnAllocations(k) :
                  /\ freed[a] = 1
                  /\ IF needsDestructorStack(invoker)
                     THEN /\ Times(log, <<"runDestructors", a>>) = 1
                          /\ ~Has(log, "destructorFunction")
                     ELSE /\ Times(log, <<"destructorFunction", a>>) = 1
                          /\ ~Has(log, "runDestructors")

\* C18: a call with a number of arguments other than the declared one fails
\* with the arity BindingError, converts no argument and does not reach the
\* native entry point.
C18_ArityChecked ==
    \A nargs \in 0..(MaxParams + 1), allocates \in Allocations(invoker) :
        nargs # expectedArgCount(invoker) =>
            LET R == Invoke(AdapterState, nargs, allocates)
            IN /\ R.err = "BindingError: called with wrong number of arguments"
               /\ R.calls = invocations
               /\ R.freed = freed
               /\ R.stack = callStack
               /\ R.I = invoker

\* A call with too few arguments was refused by an invoker that allocates
\* for its parameter, while an earlier call is inside its native call.
C18_Witness ==
    /\ rejected # -1
    /\ rejected < expectedArgCount(invoker)
    /\ invoker.argTypes[3] = "string"
    /\ callStack = <<1>>
    /\ Len(invocations) = 1
    /\ DOMAIN freed = {AllocId(1, 1)}

\* The names registered as pure virtual methods of class_.
DeclaredPureVirtual(class_) ==
    {registrations[r].name :
        r \in {q \in 1..Len(registrations) :
                  /\ registrations[q].kind = "method"
                  /\ registrations[q].class = class_
                  /\ registrations[q].pureVirtual}}

\* C19 (as the spec states it): a host-side subclass that does not implement
\* a method declared pure virtual in its base is constructed without error,
\* and invoking that method on the instance raises PureVirtualError.
C19_PureVirtualAtFirstUse ==
    \A name \in DeclaredPureVirtual("Base"), nargs \in 0..MaxArity :
        /\ InheritingConstructor(OverloadState, "Derived", {}).err = ""
        /\ CallMethod(OverloadState, "Derived", name, nargs).err = "PureVirtualError"

\* C19 (amended): the constructor of a host-side subclass fails with
\* PureVirtualError, without applying __construct, exactly when a method
\* declared pure virtual in the base class is neither implemented by the
\* subclass nor an own member of the wrapper class's prototype; invoking a
\* method never raises PureVirtualError.
C19_PureVirtualAtConstruction ==
    /\ \A properties \in SUBSET MethodNames :
           LET R == InheritingConstructor(OverloadState, "Derived", properties)
               missing == {name \in DeclaredPureVirtual("Base") :
                              /\ name \notin properties
                              /\ name \notin DOMAIN instancePrototype["Derived"]}
           IN IF missing # {}
              THEN R.err = "PureVirtualError" /\ R.target # <<"__construct", 0>>
              ELSE R.err = "" /\ R.target = <<"__construct", 0>>
    /\ \A class_ \in Classes, name \in MethodNames, nargs \in 0..MaxArity :
           Owner(instancePrototype, class_, name) # "none" =>
               CallMethod(OverloadState, class_, name, nargs).err # "PureVirtualError"

\* A subclass that implements nothing was instantiated after a pure virtual
\* method of Base had been bound, and was refused.
C19_Witness ==
    /\ lastCall.op = "new"
    /\ lastCall.properties = {}
    /\ lastCall.err = "PureVirtualError"
    /\ \E r \in 1..Len(registrations) :
           /\ registrations[r].class = "Base"
           /\ registrations[r].pureVirtual
           /\ registrations[r].resolved

\* The classes from c up to the root of its inheritance chain, c first.
RECURSIVE ChainOf(_)
ChainOf(c) == IF baseClass(c) = "none" THEN <<c>> ELSE <<c>> \o ChainOf(baseClass(c))

\* ptr after the upcasts of the first n classes of chain, in order.
RECURSIVE Upcasts(_, _, _)
Upcasts(ptr, chain, n) ==
    IF n = 0 THEN ptr ELSE upcast(chain[n], Upcasts(ptr, chain, n - 1))

\* C20: upcastPointer(ptr, fromClass, toClass) returns ptr with the upcast of
\* each class from fromClass up to, not including, toClass applied in order
\* when toClass is on the chain from fromClass to the root, fails with the
\* type-mismatch BindingError when it is not, and makes at most as many turns
\* as the chain has classes.
C20_UpcastPointer ==
    cast.called =>
        LET chain == ChainOf(cast.ptrClass)
            at == {i \in 1..Len(chain) : chain[i] = cast.desiredClass}
        IN /\ cast.result.steps < Len(chain)
           /\ IF at # {}
              THEN /\ cast.result.err = ""
                   /\ \A i \in at : cast.result.ptr = Upcasts(cast.ptr, chain, i - 1)
              ELSE cast.result.err = "BindingError: Expected null or instance of"

\* A pointer to a MostDerived object was upcast to Base, through two classes.
C20_Witness ==
    /\ cast.called
    /\ cast.ptrClass = "MostDerived"
    /\ cast.desiredClass = "Base"
    /\ cast.result.err = ""
    /\ cast.result.steps = 2
    /\ cast.result.ptr = cast.ptr + 3

\* ptr after the downcasts of the classes chain[n], ..., chain[1], in that
\* order: the class nearest the root first.
RECURSIVE Downcasts(_, _, _)
Downcasts(ptr, chain, n) ==
    IF n = 0 THEN ptr ELSE Downcasts(downcast(chain[n], ptr), chain, n - 1)

\* C21: downcastPointer(ptr, fromClass, toClass) returns the null of "no
\* conversion" when fromClass is not on the chain from toClass to the root
\* (toClass is neither fromClass nor a descendant of it), and otherwise ptr
\* with the native downcasts applied from the class just below fromClass down
\* to toClass, ancestor first; it has no failing outcome.
C21_DowncastPointer ==
    cast.downcastCalled =>
        LET chain == ChainOf(cast.desiredClass)
            at == {i \in 1..Len(chain) : chain[i] = cast.ptrClass}
        IN IF at # {}
           THEN \A i \in at : cast.downcastResult = Downcasts(cast.ptr, chain, i - 1)
           ELSE cast.downcastResult = 0

\* A pointer to Base was downcast to MostDerived, through two classes, and a
\* pointer to Other was refused a downcast.
C21_Witness ==
    /\ cast.downcastCalled
    /\ cast.ptrClass = "Base"
    /\ cast.desiredClass = "MostDerived"
    /\ cast.downcastResult = cast.ptr - 3
    /\ downcastPointer(cast.ptr, "Other", "MostDerived") = 0

\* The types a bound function can declare as its return type, and the dynamic
\* classes of the objects it can point to: Other is registered without a base
\* class and Unregistered is not registered; natively both derive from Base.
DeclaredTypes == PtrTypes
DynamicClasses == Classes \cup {"Other", "Unregistered"}
NativelyA(dyn, c) == dyn = c \/ c = "Base"

\* The returns native code can make in this state that do not hit an entry of
\* the live-instance registry: <<declared type, object, dynamic class>>.
FreshReturns ==
    {x \in DeclaredTypes \X Objects \X DynamicClasses :
        LET T == RegisteredPointer(x[1])
        IN /\ T.isSmartPointer => FreeSmartPtrs # {}
           /\ \/ objAlive[x[2]] /\ x[3] = objClass[x[2]]
              \/ IsNew(x[2])
           /\ NativelyA(x[3], T.registeredClass)
           /\ RegAt(Cur(0, 0),
                    getBasestPointer(T.registeredClass,
                                     RawAddr(NativeReturn(x[1], x[2], x[3]), x[1], x[2]))) = 0}

\* C22: converting a returned pointer of declared type t whose object has a
\* registered dynamic class at or below t's class yields a new handle of that
\* class's pointer type (the const one if t is const) holding the downcast
\* address, the object's own; when the dynamic class is not registered or the
\* downcast gives no conversion, the handle has the declared type and the
\* address as returned; either way no error is raised and a smart pointer
\* stays with the handle.
C22_MostDerivedHandle ==
    \A x \in FreshReturns :
        LET t == x[1]
            o == x[2]
            dyn == x[3]
            T == RegisteredPointer(t)
            S0 == NativeReturn(t, o, dyn)
            raw == RawAddr(S0, t, o)
            R == ReturnValue(t, o, dyn)
            h == R.ret
            converts == /\ dyn \in {"Base", "Derived", "Other"}
                        /\ \E i \in 1..Len(ChainOf(dyn)) : ChainOf(dyn)[i] = T.registeredClass
        IN /\ R.err = ""
           /\ h = Len(hs) + 1
           /\ Len(R.hs) = h
           /\ R.hs[h].smartPtrType = (IF T.isSmartPointer THEN t ELSE "none")
           /\ R.hs[h].smartPtr = (IF T.isSmartPointer THEN WirePtr(S0, t, o) ELSE 0)
           /\ IF converts
              THEN /\ RegisteredPointer(R.hs[h].ptrType).registeredClass = dyn
                   /\ RegisteredPointer(R.hs[h].ptrType).isConst = T.isConst
                   /\ ~RegisteredPointer(R.hs[h].ptrType).isSmartPointer
                   /\ R.hs[h].ptr = ObjAddr(o)
                   /\ R.hs[h].ptr = (IF dyn = T.registeredClass THEN raw ELSE downcast(dyn, raw))
              ELSE /\ R.hs[h].ptrType = (IF T.isSmartPointer THEN T.pointeeType ELSE t)
                   /\ R.hs[h].ptr = raw

\* A smart pointer to Base that holds a Derived object was returned: its
\* handle has the pointer type of Derived and the object's own address, one
\* downcast below the address the smart pointer holds.
C22_Witness ==
    \E h \in 1..Len(hs) :
        /\ hs[h].smartPtrType = "sp<Base>"
        /\ hs[h].ptrType = "Derived*"
        /\ hs[h].smartPtr # 0
        /\ objClass[ObjOf(hs[h].ptr)] = "Derived"
        /\ hs[h].ptr = ObjAddr(ObjOf(hs[h].ptr))
        /\ spPointee[SpOf(hs[h].smartPtr)] = upcast("Derived", hs[h].ptr)

\* The BindingErrors of an argument conversion.
ConversionErrors ==
    {"BindingError: null is not a valid",
     "BindingError: Cannot pass deleted object as a pointer of type",
     "BindingError: Cannot convert argument of type",
     "BindingError: Expected null or instance of",
     "BindingError: Passing raw pointer to smart pointer is illegal",
     "BindingError: Unsupporting sharing policy",
     "BindingError: with invalid this",
     "BindingError: incompatible with this of type",
     "BindingError: cannot call emscripten binding method on deleted object"}

SmartPointerTypes == {t \in PtrTypes : RegisteredPointer(t).isSmartPointer}

\* C23: under sharing policy NONE the conversion of a handle to a parameter
\* of smart pointer type t succeeds only when the handle's smart pointer type
\* is t, and then passes the handle's own smart pointer and changes nothing; a
\* handle of any other type is refused with a BindingError, its count cell
\* untouched; a live handle of type t is never refused.
C23_ExactSmartPointerType ==
    \A t \in SmartPointerTypes, h \in 1..Len(hs) :
        LET R == RegisteredPointer_toWireType(Cur(0, 0), ParameterType(t, 0), TRUE, h)
        IN /\ R.err = "" =>
                  /\ hs[h].smartPtrType = t
                  /\ R.ret = hs[h].smartPtr
                  /\ R.ret # 0
                  /\ R.hs = hs /\ R.cnt = cnt /\ R.spP = spPointee /\ R.tr = <<>>
           /\ hs[h].smartPtrType # t => R.err \in ConversionErrors /\ R.cnt = cnt /\ R.hs = hs
           /\ hs[h].smartPtrType = t /\ hs[h].ptr # 0 => R.err = ""

\* A handle was passed under NONE to a parameter of its own smart pointer
\* type: native code got the handle's smart pointer and the count stayed.
C23_Witness ==
    /\ argument.op = "pass"
    /\ argument.sharingPolicy = 0
    /\ argument.handle # 0
    /\ argument.type = hs[argument.handle].smartPtrType
    /\ argument.err = ""
    /\ argument.native
    /\ argument.ptr = hs[argument.handle].smartPtr
    /\ cnt[hs[argument.handle].count] = argument.count

\* The handles that hold a smart pointer and can be passed under BY_EMVAL
\* while the model has room for the clone and the smart pointer it may mint.
Shareable ==
    {h \in 1..Len(hs) :
        /\ Usable(h)
        /\ hs[h].ptr # 0 /\ hs[h].smartPtr # 0
        /\ FreeSmartPtrs # {}}

\* C24 (as the spec states it): under BY_EMVAL the conversion of a handle to a
\* smart pointer parameter mints a new native smart pointer that captures a
\* clone of the handle, raising the count by 1; and while native code holds a
\* minted smart pointer (its closure has not run) the count stays above 0 and
\* the smart pointer the handle owns is not destroyed, whatever host code
\* deletes.
C24_CaptureKeepsAlive ==
    /\ \A t \in SmartPointerTypes, h \in Shareable :
           LET R == RegisteredPointer_toWireType(Cur(0, 0), ParameterType(t, 2), TRUE, h)
           IN R.err = "" =>
                  /\ Minted(R) # <<>>
                  /\ R.ret = Minted(R)[1][2]
                  /\ R.ret # hs[h].smartPtr
                  /\ R.cnt[hs[h].count] = cnt[hs[h].count] + 1
    /\ argument.minted # 0 /\ ~argument.released =>
           /\ cnt[hs[argument.clonedHandle].count] > 0
           /\ hs[argument.clonedHandle].smartPtr \notin destroyed

\* The native entry points entered during R.
NativeCalls(R) == SelectSeq(R.tr, LAMBDA e : e[1] = "native")

\* C27 (as the spec states it): once delete() has succeeded on a handle,
\* calling a bound method on it, reading or writing a bound property of it and
\* passing it as an argument all fail with a BindingError, and no native entry
\* point is entered.
C27_DeletedHandleRefused ==
    \A h \in 1..Len(hs) :
        LET S1 == [ClassHandle_delete(Cur(0, 0), h) EXCEPT !.tr = <<>>]
            Refused(R) == R.err \in ConversionErrors /\ NativeCalls(R) = <<>>
        IN Usable(h) /\ S1.err = "" =>
               /\ \A t \in {"Base*", "Base const*", "Derived*"} :
                      Refused(CallBoundMethod(S1, t, h))
               /\ \A c \in Classes :
                      /\ Refused(PropertyGetter(S1, c, h))
                      /\ Refused(PropertySetter(S1, c, h))
               /\ \A t \in ParameterTypes, sharingPolicy \in SharingPolicies :
                      (RegisteredPointer(t).isSmartPointer => FreeSlots(S1) # {}) =>
                          Refused(PassArgument(S1, ParameterType(t, sharingPolicy), h))

\* The function objects a call through class_'s prototype can reach under
\* methodName: the property itself and the entries of its overload table.
Reachable(O, class_, methodName) ==
    IF Owner(O.P, class_, methodName) = "none" THEN {}
    ELSE LET fn == O.P[Owner(O.P, class_, methodName)][methodName]
         IN {fn.code} \cup
            (IF fn.hasTable THEN {fn.overloadTable[k].code : k \in DOMAIN fn.overloadTable}
             ELSE {})

\* registerType(t), unless t has its descriptor.
Register(O, t) == IF t \in O.types THEN O ELSE registerType(O, t)

\* C25: the callback of every registration made so far has run once if all
\* the types of its signature have descriptors and never if not; a method
\* whose callback has run no longer has its stub reachable through its own
\* class, and one whose callback has not run has no invoker anywhere.  And a
\* method bound now (where one more can be bound) to a registered class, with
\* a return type and a parameter type, has its callback run exactly once, when
\* the last of the two types
\* gets its descriptor, in whichever order they are registered: right after
\* the binding a call reaches its stub, and when the callback runs the call
\* reaches the invoker.
C25_CallbackFiresOnce ==
    /\ \A r \in 1..Len(registrations) :
           LET reg == registrations[r]
           IN /\ reg.fired = (IF Range(reg.argTypes) \subseteq registeredTypes THEN 1 ELSE 0)
              /\ reg.kind = "method" /\ reg.fired = 1 =>
                     <<"stub", r>> \notin Reachable(OverloadState, reg.class, reg.name)
              /\ reg.kind = "method" /\ reg.fired = 0 =>
                     \A c \in Classes : <<"invoker", r>> \notin Reachable(OverloadState, c, reg.name)
    /\ Len(registrations) < MaxRegistrations =>
       \A class_ \in Classes, methodName \in MethodNames, rt \in TypeIds, pt \in TypeIds,
          order \in {<<"A", "B">>, <<"B", "A">>} :
           LET r == Len(registrations) + 1
               needed == {rt, pt}
               target(O) == LET fn == O.P[Owner(O.P, class_, methodName)][methodName]
                            IN IF fn.hasTable THEN fn.overloadTable[1].code ELSE fn.code
               Once(O) == O.regs[r].fired = (IF needed \subseteq O.types THEN 1 ELSE 0)
               Fires(Before, After) ==
                   Before.regs[r].fired = 0 /\ After.regs[r].fired = 1 =>
                       target(After) = <<"invoker", r>>
           IN \A O0 \in {embind_register_class_function(OverloadState, class_, methodName, 3,
                                                        <<rt, rt, pt>>, FALSE)} :
              \A O1 \in {Register(O0, order[1])} :
              \A O2 \in {Register(O1, order[2])} :
                  /\ Once(O0) /\ Once(O1) /\ Once(O2) /\ O2.regs[r].fired = 1
                  /\ target(O0) = (IF O0.regs[r].fired = 1 THEN <<"invoker", r>>
                                   ELSE <<"stub", r>>)
                  /\ Fires(O0, O1) /\ Fires(O1, O2)

\* A method was bound while its types had no descriptor, and the type
\* registered last ran its callback: the call now reaches the invoker.
C25_Witness ==
    /\ lastCall.op = "registerType"
    /\ \E r \in 1..Len(registrations) :
           /\ registrations[r].kind = "method"
           /\ registrations[r].fired = 1
           /\ CallMethod(OverloadState, registrations[r].class, registrations[r].name,
                         registrations[r].argCount - 2).target = <<"invoker", r>>

\* C26: registering an integer or a bool type under an id that has a
\* descriptor fails with the duplicate-registration error and leaves the
\* registry as it was; registering a memory view under such an id is accepted
\* without error.
C26_DuplicateRegistration ==
    \A rawType \in DOMAIN registry.descriptors :
        /\ \A t \in IntegerTypes :
               LET S == embind_register_integer(registry, rawType, t[1], t[2], t[3], t[4])
               IN S.err = "DuplicateTypeError" /\ S.descriptors = registry.descriptors
        /\ LET S == embind_register_bool(registry, rawType, "bool", 1, 1, 0)
           IN S.err = "DuplicateTypeError" /\ S.descriptors = registry.descriptors
        /\ embind_register_memory_view(registry, rawType, "emscripten::memory_view<char>").err = ""

\* A registration was refused as a duplicate while a memory view is
\* registered.
C26_Witness ==
    /\ registry.err = "DuplicateTypeError"
    /\ \E rawType \in DOMAIN registry.descriptors :
           registry.descriptors[rawType].kind = "memory_view"

\* The error names the value and the type it was to become.
Cites(err, value, name) ==
    Len(err) = 4 /\ err[1] = "TypeError" /\ err[3] = value /\ err[4] = name

\* value is inside the declared range of descriptor d: minRange..maxRange for
\* an integer type, true and false for bool.
InRange(d, value) ==
    IF d.kind = "bool" THEN value.type = "boolean"
    ELSE value.type = "number" /\ value.v >= d.minRange /\ value.v <= d.maxRange

\* C29: for every registered integer or bool descriptor, a value inside the
\* declared range converts without error and fromWireType(toWireType(v)) = v;
\* a value outside it fails with an error citing the value and the type.
C29_PrimitiveRoundTrip ==
    \A rawType \in DOMAIN registry.descriptors :
        LET d == registry.descriptors[rawType]
        IN d.kind # "memory_view" =>
           \A value \in Values(d) :
               LET wire == primitive_toWireType(registry.ASSERTIONS, d, value)
               IN IF InRange(d, value)
                  THEN wire.err = <<>> /\ primitive_fromWireType(d, wire.value) = value
                  ELSE Cites(wire.err, value, d.name)

\* The finalizer of h ran in this step: the registry let go of h as the host
\* collected it.
Finalized(h) == h \in finalizers /\ h \notin finalizers' /\ h \in collected'

\* C28: a finalizer is attached only to handles that own a smart pointer
\* and that have not been deleted, and delete detaches it; a handle that
\* exists without a finalizer never gets one, so a deleted handle is never
\* released by the finalizer as well; and a finalizer runs once, on a handle
\* whose count is positive, and takes exactly one from it.
C28_FinalizerReleasesOnce ==
    /\ [](/\ \A h \in finalizers :
                 /\ hs[h].smartPtr # 0 /\ hs[h].smartPtrType # "none"
                 /\ hs[h].ptr # 0
                 /\ h \notin collected
          /\ \A h \in 1..Len(hs) :
                 Usable(h) /\ hs[h].ptr # 0 =>
                     LET S == ClassHandle_delete(Cur(0, 0), h)
                     IN S.err = "" => h \notin S.fin)
    /\ [][\A h \in 1..Len(hs) :
              /\ h \notin finalizers => h \notin finalizers'
              /\ h \in collected => h \in collected'
              /\ Finalized(h) =>
                     /\ h \notin collected
                     /\ cnt[hs[h].count] > 0
                     /\ cnt'[hs[h].count] = cnt[hs[h].count] - 1]_vars

\* The host collected a handle whose finalizer then released it, another
\* handle of a smart pointer was deleted by hand, and a raw-pointer handle
\* is in use with no finalizer.
C28_Witness ==
    /\ \E h \in collected : hs[h].smartPtrType # "none"
    /\ \E h \in 1..Len(hs) :
           h \notin collected /\ hs[h].ptr = 0 /\ hs[h].smartPtrType # "none"

\* How invocation k delivered its result: through the continuation handed to
\* a promise, or inline when cppInvokerFunc returned.
Deferred(k) == \E i \in 1..Len(invocations[k].log) : invocations[k].log[i][1] = "suspend"
Inline(k) == \E i \in 1..Len(invocations[k].log) : invocations[k].log[i][1] = "return"

\* C30: an invoker built with isAsync delivers no result inline, and one built
\* without it delivers none through the continuation: every call of an invoker
\* takes the same path.
C30_SyncOrAsyncForLife ==
    \A k \in 1..Len(invocations) :
        /\ invoker.isAsync => ~Inline(k)
        /\ ~invoker.isAsync => ~Deferred(k)

\* What an error message starts with.
IsBindingError(err) == Len(err) >= 12 /\ SubSeq(err, 1, 12) = "BindingError"

\* The constructor registrations of class_ made for n parameters.
ConstructorsOf(class_, n) ==
    {r \in 1..Len(registrations) :
        /\ registrations[r].kind = "constructor"
        /\ registrations[r].class = class_
        /\ registrations[r].argCount - 1 = n}

\* C31: a class's constructor table holds at most one implementation per
\* parameter count, the one registration made for that count; registering a
\* second constructor for a registered count fails with BindingError and
\* leaves the table as it was, and constructing with an unregistered argument
\* count fails with BindingError.
C31_OneConstructorPerArity ==
    \A class_ \in Classes :
        /\ \A n \in 0..MaxArity :
               /\ Cardinality(ConstructorsOf(class_, n)) <= 1
               /\ n \in DOMAIN constructor_body[class_] <=> ConstructorsOf(class_, n) # {}
               /\ n \in DOMAIN constructor_body[class_] =>
                      /\ constructor_body[class_][n][2] \in ConstructorsOf(class_, n)
                      /\ constructor_body[class_][n][1] \in {"stub", "invoker"}
                      /\ \A t \in TypeIds :
                             LET S == embind_register_class_constructor(
                                          OverloadState, class_, n + 1,
                                          [i \in 1..(n + 1) |-> t])
                             IN /\ IsBindingError(S.err)
                                /\ S.ctor = constructor_body
                                /\ S.regs = registrations
        /\ \A nargs \in 0..(MaxArity + 1) :
               nargs \notin DOMAIN constructor_body[class_] =>
                   LET call == CallConstructor(OverloadState, class_, nargs)
                   IN /\ IsBindingError(call.err)
                      /\ call.target = NoCall.target

\* A second constructor for a registered parameter count was refused.
C31_Witness ==
    /\ lastCall.op = "register"
    /\ IsBindingError(lastCall.err)
    /\ lastCall.nargs \in DOMAIN constructor_body[lastCall.name]

\* A construction with an argument count nobody registered was refused by a
\* class that has a constructor.
C31_RefusedConstruction ==
    /\ lastCall.op = "new"
    /\ IsBindingError(lastCall.err)
    /\ constructor_body[lastCall.name] # <<>>
    /\ lastCall.nargs \notin DOMAIN constructor_body[lastCall.name]

\* The addresses the registry has an instance for, and the address of the
\* object at address a as a pointer to the root class.
LiveInstances == {a \in DOMAIN registeredInstances : registeredInstances[a] # 0}
RootAddress(a) == getBasestPointer("Derived", ObjAddr(ObjOf(a)))

\* C32: the live-instance registry holds at most one instance per native
\* object, under the object's address as a pointer to the root class;
\* registering a registered address and unregistering an unregistered one
\* fail with BindingError and change nothing, a successful registration adds
\* one to getInheritedInstanceCount and a successful unregistration takes one
\* off, and the count is the number of instances the registry holds, each a
\* host-side subclass instance registered once.
C32_LiveInstanceRegistry ==
    /\ \A a \in LiveInstances :
           /\ registeredInstances[a] \in 1..Len(hs)
           /\ hs[registeredInstances[a]].preservePointerOnDelete
           /\ a = RootAddress(a)
           /\ \A b \in LiveInstances :
                  (ObjOf(a) = ObjOf(b) \/ registeredInstances[a] = registeredInstances[b])
                      => a = b
    /\ getInheritedInstanceCount(Cur(0, 0))
           = Cardinality({registeredInstances[a] : a \in LiveInstances})
    /\ \A class_ \in Classes, o \in Objects :
           LET ptr == AddrAs(o, "Derived", class_)
               p == getBasestPointer(class_, ptr)
               h == Len(hs) + 1
               R == registerInheritedInstance(Cur(0, 0), class_, ptr, h)
               U == unregisterInheritedInstance(Cur(0, 0), class_, ptr)
               count == Cardinality(LiveInstances)
           IN IF p \in LiveInstances
              THEN /\ R.err = "BindingError: Tried to register registered instance"
                   /\ R.reg = registeredInstances
                   /\ U.err = ""
                   /\ RegAt(U, p) = 0
                   /\ getInheritedInstanceCount(U) = count - 1
              ELSE /\ U.err = "BindingError: Tried to unregister unregistered instance"
                   /\ U.reg = registeredInstances
                   /\ R.err = ""
                   /\ RegAt(R, p) = h
                   /\ getInheritedInstanceCount(R) = count + 1

\* An instance of a host-side subclass is registered under its root address.
C32_Witness ==
    \E h \in 1..Len(hs) :
        /\ hs[h].preservePointerOnDelete
        /\ registeredInstances[RootAddress(hs[h].ptr)] = h
        /\ getInheritedInstanceCount(Cur(0, 0)) = 1

\* The native wrapper of an instance died and the instance was unregistered.
C32_Unregistered ==
    \E h \in 1..Len(hs) :
        /\ hs[h].preservePointerOnDelete
        /\ RootAddress(hs[h].ptr) \notin LiveInstances

\* The handles that share refCount cell c, and those of them that still hold
\* their share: the pointer is set and no finalizer has released the handle.
HandlesOf(c) == {h \in 1..Len(hs) : hs[h].count = c}
Holding(c) == {h \in HandlesOf(c) : hs[h].ptr # 0 /\ h \notin collected}

\* C33: a refCount cell whose handles do not have preservePointerOnDelete
\* holds the number of its handles whose pointer is non-null and that no
\* finalizer has released.
C33_CountIsLiveHandles ==
    \A c \in 1..Len(cnt) :
        (\A h \in HandlesOf(c) : ~hs[h].preservePointerOnDelete)
            => cnt[c] = Cardinality(Holding(c))

\* A handle and its clone share a cell; one of them was deleted and the cell
\* counts the other.
C33_Witness ==
    \E c \in 1..Len(cnt) :
        /\ \A h \in HandlesOf(c) : ~hs[h].preservePointerOnDelete
        /\ Cardinality(HandlesOf(c)) = 2
        /\ \E h \in HandlesOf(c) : hs[h].ptr = 0
        /\ cnt[c] = 1

\* A finalizer released one of two handles of a cell.
C33_FinalizerReleased ==
    \E c \in 1..Len(cnt) :
        /\ Cardinality(HandlesOf(c)) = 2
        /\ \E h \in HandlesOf(c) : h \in collected
        /\ cnt[c] = 1

\* C34: no refCount is negative, whatever clone and delete calls were made,
\* handles with preservePointerOnDelete included.
C34_CountNeverNegative == \A c \in 1..Len(cnt) : cnt[c] >= 0

\* The places handle h has in the deletion queue.
QueuePlaces(h) == {i \in 1..Len(deletionQueue) : deletionQueue[i] = h}

\* C35: a handle without preservePointerOnDelete is in the deletion queue at
\* most once and has deleteScheduled set exactly when it is in the queue;
\* delete and deleteLater on a scheduled handle fail with BindingError and
\* leave queue and counts unchanged, and a clone of a scheduled handle is not
\* scheduled.
C35_ScheduledIffQueued ==
    \A h \in 1..Len(hs) :
        (Usable(h) /\ ~hs[h].preservePointerOnDelete) =>
            /\ Cardinality(QueuePlaces(h)) <= 1
            /\ hs[h].deleteScheduled <=> QueuePlaces(h) # {}
            /\ (hs[h].deleteScheduled /\ hs[h].ptr # 0) =>
                   LET D == ClassHandle_delete(Cur(0, 0), h)
                       L == ClassHandle_deleteLater(Cur(0, 0), h)
                       C == ClassHandle_clone(Cur(0, 0), h)
                   IN /\ D.err = AlreadyScheduled /\ D.q = deletionQueue /\ D.cnt = cnt
                      /\ L.err = AlreadyScheduled /\ L.q = deletionQueue /\ L.cnt = cnt
                      /\ C.err = "" /\ ~C.hs[C.ret].deleteScheduled

\* C36: deleteLater(h) releases nothing while the scheduler hook, if there is
\* one, does not run the flush synchronously: when it returns h is queued and
\* scheduled with its pointers, no count has changed and no destructor has
\* run; a failed call changes nothing; and a handle without
\* preservePointerOnDelete keeps its pointer and its share of the count for
\* as long as it is in the queue.
C36_DeleteLaterDefers ==
    /\ delayFunction # "sync" =>
           \A h \in 1..Len(hs) :
               Usable(h) =>
                   LET L == ClassHandle_deleteLater(Cur(0, 0), h)
                   IN /\ L.cnt = cnt
                      /\ Dtors(L) = <<>>
                      /\ L.dead = destroyed
                      /\ L.oAlive = objAlive
                      /\ IF L.err = ""
                         THEN /\ hs[h].ptr # 0
                              /\ L.hs = [hs EXCEPT ![h].deleteScheduled = TRUE]
                              /\ L.q = Append(deletionQueue, h)
                              /\ L.ret = h
                         ELSE L.hs = hs /\ L.q = deletionQueue
    /\ \A i \in 1..Len(deletionQueue) :
           ~hs[deletionQueue[i]].preservePointerOnDelete =>
               /\ hs[deletionQueue[i]].ptr # 0
               /\ cnt[hs[deletionQueue[i]].count] >= 1

\* deleteLater returned with an asynchronous hook holding the flush: the
\* handle is queued, scheduled, not deleted, and its object lives.
C36_Witness ==
    /\ delayFunction = "async"
    /\ pendingFlush > 0
    /\ \E i \in 1..Len(deletionQueue) :
           LET h == deletionQueue[i]
           IN /\ hs[h].deleteScheduled
              /\ hs[h].ptr # 0
              /\ cnt[hs[h].count] = 1
              /\ Entity(hs[h].ptr) \notin destroyed

\* Handle h was popped from the queue and deleted.
Released(h) ==
    /\ QueuePlaces(h) = {}
    /\ h \in 1..Len(hs) => (hs[h].preservePointerOnDelete \/ hs[h].ptr = 0)

\* C37: when a scheduler hook is set and stays, every handle in the deletion
\* queue is popped and deleted in the end, whether deleteLater was called
\* before the hook was set or after; and while a hook is set, a queue that is
\* not empty has a flush scheduled.
C37_QueuedIsReleased ==
    /\ []((deletionQueue # <<>> /\ delayFunction # "undefined") => pendingFlush > 0)
    /\ (<>[](delayFunction # "undefined")) =>
           \A h \in 1..MaxHandles : (QueuePlaces(h) # {}) ~> Released(h)

\* A handle that was queued has been released while an asynchronous hook is
\* set, and no flush is left to run (only a flush deletes in QueueSpec).
C37_Witness ==
    /\ delayFunction = "async"
    /\ pendingFlush = 0
    /\ deletionQueue = <<>>
    /\ \E h \in 1..Len(hs) : ~hs[h].preservePointerOnDelete /\ hs[h].ptr = 0

\* C38: delete(h) on a handle without preservePointerOnDelete clears ptr and
\* smartPtr of h and changes no other handle; a handle that shares the cell
\* and holds its share keeps its pointer, is not deleted, keeps the object
\* alive (no destructor runs, the count stays at 1 or more) and can still be
\* cloned and deleted.
C38_DeleteClearsOnlyItself ==
    \A h \in 1..Len(hs) :
        (Usable(h) /\ ~hs[h].preservePointerOnDelete) =>
            LET D0 == ClassHandle_delete(Cur(0, 0), h)
                D == [D0 EXCEPT !.tr = <<>>]
                c == hs[h].count
            IN IF D0.err # "" THEN D.hs = hs
               ELSE /\ D.hs[h].ptr = 0 /\ D.hs[h].smartPtr = 0
                    /\ \A g \in 1..Len(hs) : g # h => D.hs[g] = hs[g]
                    /\ \A g \in Holding(c) \ {h} :
                           /\ ~ClassHandle_isDeleted(D, g)
                           /\ Dtors(D0) = <<>>
                           /\ D.dead = destroyed
                           /\ D.cnt[c] >= 1
                           /\ ClassHandle_clone(D, g).err = ""
                           /\ ~hs[g].deleteScheduled => ClassHandle_delete(D, g).err = ""

\* A handle was deleted; its clone has its pointer, the count of 1 and a
\* living object.
C38_Witness ==
    \E g \in 1..Len(hs) :
        /\ cloneOf[g] # 0
        /\ ~hs[g].preservePointerOnDelete
        /\ hs[cloneOf[g]].ptr = 0
        /\ hs[g].ptr # 0
        /\ cnt[hs[g].count] = 1
        /\ Entity(hs[g].ptr) \notin destroyed

\* The inputs of an invoker call: the type of `this`, a pointer parameter
\* (a reference or not, a smart pointer under NONE or BY_EMVAL), an integer
\* parameter, and the build's ASSERTIONS.
ThisTypes == {ParameterType(t, 0) : t \in {"Base*", "Base const*"}}
PointerParameters ==
    {[ParameterType("Base*", 0) EXCEPT !.isReference = r] : r \in BOOLEAN}
        \cup {ParameterType("sp<Base>", p) : p \in {0, 2}}
UnsignedChar == IntegerType("unsigned char", 1, 0, 255)
IntegerArguments == {Number(7), Number(256)}

\* C39: in a state in which host code can make a call, when the conversion
\* of `this` or of a parameter fails, the invoker ends with the error of the
\* first conversion that failed and enters no native entry point, and when
\* none fails it enters one; a handle whose pointer is cleared, null for a
\* reference, a const handle for a non-const parameter, a raw-pointer handle
\* for a smart pointer parameter and, under ASSERTIONS, an integer out of
\* range are conversions that fail.
C39_FailedConversionNoCall ==
    \A thisType \in ThisTypes, T \in PointerParameters, assertions \in {0, 1},
       value \in IntegerArguments, this_ \in 1..Len(hs), handle \in 0..Len(hs) :
        (argument.op = "none" /\ Usable(this_) /\ (handle = 0 \/ Usable(handle))
         /\ (T.isSmartPointer => FreeSmartPtrs # {})) =>
            LET R == invokerFunction(Cur(0, 0), assertions, thisType, this_, T, handle,
                                     UnsignedChar, value)
                C1 == RegisteredPointer_toWireType(Cur(0, 0), thisType, TRUE, this_)
                C2 == RegisteredPointer_toWireType(C1, T, TRUE, handle)
                W == primitive_toWireType(assertions, UnsignedChar, value)
                failed == C1.err # "" \/ C2.err # "" \/ W.err # <<>>
            IN /\ failed => R.err # "" /\ NativeCalls(R) = <<>>
               /\ C1.err # "" => R.err = C1.err
               /\ (C1.err = "" /\ C2.err # "") => R.err = C2.err
               /\ (C1.err = "" /\ C2.err = "" /\ W.err # <<>>) => R.err = W.err[1]
               /\ ~failed => R.err = "" /\ Len(NativeCalls(R)) = 1
               /\ hs[this_].ptr = 0 => C1.err \in ConversionErrors
               /\ (~thisType.isConst /\ RegisteredPointer(hs[this_].ptrType).isConst) => failed
               /\ C1.err = "" =>
                      /\ (handle # 0 /\ hs[handle].ptr = 0) => C2.err \in ConversionErrors
                      /\ (handle = 0 /\ T.isReference) => C2.err \in ConversionErrors
                      /\ (handle # 0 /\ ~T.isConst
                          /\ RegisteredPointer(hs[handle].ptrType).isConst) =>
                             C2.err \in ConversionErrors
                      /\ (handle # 0 /\ T.isSmartPointer /\ hs[handle].smartPtr = 0) =>
                             C2.err \in ConversionErrors
               /\ (assertions = 1 /\ value.v > UnsignedChar.maxRange) => W.err # <<>>

\* A deleted handle was passed to a bound function: the call failed with the
\* conversion's BindingError and the native function was not entered.
C39_Witness ==
    /\ argument.op = "pass"
    /\ argument.handle # 0
    /\ hs[argument.handle].ptr = 0
    /\ argument.err = "BindingError: Cannot pass deleted object as a pointer of type"
    /\ ~argument.native

\* The classes whose registrations a call on an instance of class_ may
\* reach: class_ and its ancestors.
RECURSIVE SelfAndAncestors(_)
SelfAndAncestors(class_) ==
    IF class_ = "none" THEN {} ELSE {class_} \cup SelfAndAncestors(baseClass(class_))

\* C40: a method registration on Derived leaves what a call on a Base
\* instance reaches, for every name and argument count, as it was; and in
\* every reachable state such a call reaches the callable of a registration
\* made on Base.
C40_BaseDispatchUntouched ==
    \A methodName \in MethodNames, nargs \in 0..(Max(MethodArities) + 1) :
        /\ Owner(instancePrototype, "Base", methodName) # "none" =>
               LET call == CallMethod(OverloadState, "Base", methodName, nargs)
               IN call.target[1] \in {"stub", "invoker"} =>
                      registrations[call.target[2]].class \in SelfAndAncestors("Base")
        /\ \A n \in MethodArities, t \in TypeIds :
               LET R == embind_register_class_function(
                            OverloadState, "Derived", methodName, n + 2,
                            [i \in 1..(n + 2) |-> t], FALSE)
               IN /\ R.P["Base"] = instancePrototype["Base"]
                  /\ Owner(instancePrototype, "Base", methodName) # "none" =>
                         CallMethod(R, "Base", methodName, nargs).target
                             = CallMethod(OverloadState, "Base", methodName, nargs).target
====
